---- MODULE Spec2Model ----
(***************************************************************************)
(* The markdown-token renderer of src/src/taskpane/taskpane.ts:            *)
(* processMarkdownTokens walks the flat token array that markdown-it       *)
(* produced and stages Word document mutations through a cursor            *)
(* (currentRange).  Every loop of the source is a control location (pc)    *)
(* and every loop iteration is one step.                                   *)
(*                                                                         *)
(* The host document is a sequence of elements.  Word's                    *)
(* insertParagraph/insertText/insertTable with InsertLocation.after put    *)
(* the new element directly behind the element the range is anchored to.   *)
(* Array indices are 0-based as in the source.                             *)
(***************************************************************************)
EXTENDS Integers, Sequences, FiniteSets, TLC

(***************************************************************************)
(* Bounds of the checked input families.                                   *)
(***************************************************************************)
MaxLen == 3
MaxChildren == 3
MaxItems == 2
MaxBodyRows == 2
MaxCols == 2
\* the task pane: the generations in flight at once, and the retries a task
\* gets while another generation is in flight
MaxCalls == 2
MaxOverlapWaits == 2
\* the polls of a task after which the server has only short texts left
MaxRichPolls == 1

(***************************************************************************)
(* Program constants.                                                      *)
(***************************************************************************)
ListIndent == 18
QuoteIndent == 36
CodeIndent == 36
\* the polls of pollTaskStatus
maxAttempts == 120
\* '• ' in the source (U+2022 BULLET and a space); TLA+ strings are ASCII
BulletPrefix == "* "
LinkColor == "#0066cc"
HeaderColor == "#2c3e50"

(***************************************************************************)
(* Tokens.  A markdown-it token has type, tag, content, info (the marker of *)
(* an ordered list item), attrs and children.                              *)
(* NoTag stands for a token object whose tag property is undefined, and    *)
(* Undefined for the value of tokens[k] with k outside the array.          *)
(***************************************************************************)
NoTag == "<undefined>"

Token(type, content) ==
    [type |-> type, content |-> content, tag |-> "", info |-> "", children |-> <<>>]

Heading(tag) ==
    [type |-> "heading_open", content |-> "", tag |-> tag, info |-> "",
     children |-> <<>>]

Child(type, content) ==
    [type |-> type, content |-> content, attrs |-> <<>>]

LinkOpen(attrs) ==
    [type |-> "link_open", content |-> "", attrs |-> attrs]

Inline(content, children) ==
    [type |-> "inline", content |-> content, tag |-> "", info |-> "",
     children |-> children]

\* the inline token markdown-it makes of plain text c
InlineText(c) ==
    Inline(c, IF c = "" THEN <<>> ELSE <<Child("text", c)>>)

Undefined ==
    [type |-> "undefined", content |-> "", tag |-> "", info |-> "", children |-> <<>>]

\* tokens[k] of a JavaScript array: undefined outside 0..length-1
At(toks, k) ==
    IF k >= 0 /\ k < Len(toks) THEN toks[k + 1] ELSE Undefined

\* tokens[k] && tokens[k].type === type
IsType(toks, k, type) ==
    At(toks, k) # Undefined /\ At(toks, k).type = type

(***************************************************************************)
(* The host document.  An element is a paragraph, a text range or a table. *)
(* blk and tok are history fields: the dispatcher index that was being     *)
(* handled when the element was inserted, and the index of the token whose *)
(* content the element carries (-1 when it carries none).                  *)
(***************************************************************************)
Element(id, kind, text, style, indent, blk, tok) ==
    [id |-> id, kind |-> kind, text |-> text, style |-> style,
     leftIndent |-> indent, blk |-> blk, tok |-> tok,
     runs |-> <<>>, cells |-> <<>>]

\* position of the element a range is anchored to; the selection is before all
PosOf(d, anchor) ==
    IF anchor = 0 THEN 0 ELSE CHOOSE p \in 1..Len(d) : d[p].id = anchor

\* range.insertParagraph(text, Word.InsertLocation.after) and its siblings
InsertAfter(d, anchor, e) ==
    SubSeq(d, 1, PosOf(d, anchor)) \o <<e>> \o SubSeq(d, PosOf(d, anchor) + 1, Len(d))

NewId(d) == Len(d) + 1

(***************************************************************************)
(* State.                                                                  *)
(*   tokens        the array handed to processMarkdownTokens               *)
(*   pc            the loop the render is in                               *)
(*   i             the dispatcher's index                                  *)
(*   currentRange  the dispatcher's cursor: id of the element the range is *)
(*                 anchored to, 0 for the cleared selection                *)
(*   doc           the staged document content behind the selection        *)
(*   err           the exception that left processMarkdownTokens, if any   *)
(*   dispatched    history: the indices the dispatcher's switch handled    *)
(*   si, selection, lastParagraph, itemNumber, startIndex                  *)
(*                 locals of the list, blockquote and table renderers      *)
(*   tableData, headerRow  locals of insertTable (headerRow also stands    *)
(*                 for the body loop's row)                                *)
(*   depth         listDepth / orderedDepth / quoteDepth / tableDepth      *)
(*   children, ci, isBold, isItalic, linkHref, pendingText, paragraph      *)
(*                 locals of insertFormattedParagraph                      *)
(***************************************************************************)
VARIABLES tokens, pc, i, currentRange, doc, err, dispatched,
          si, selection, lastParagraph, itemNumber, startIndex,
          tableData, headerRow, depth,
          children, ci, isBold, isItalic, linkHref, pendingText, paragraph

dispatcherVars == <<tokens, pc, i, currentRange, doc, err, dispatched>>
rendererVars == <<si, selection, lastParagraph, itemNumber, startIndex>>
tableVars == <<tableData, headerRow>>
inlineVars == <<children, ci, isBold, isItalic, linkHref, pendingText, paragraph>>
vars == <<dispatcherVars, rendererVars, tableVars, depth, inlineVars>>

(***************************************************************************)
(* insertHeading                                                           *)
(***************************************************************************)
Digits == <<"0", "1", "2", "3", "4", "5", "6", "7", "8", "9">>
NaN == 0 - 1

\* tag.charAt(1)
CharAt1(tag) == IF Len(tag) >= 2 THEN SubSeq(tag, 2, 2) ELSE ""

\* parseInt of one character
ParseInt(c) ==
    IF \E n \in 1..Len(Digits) : Digits[n] = c
    THEN (CHOOSE n \in 1..Len(Digits) : Digits[n] = c) - 1
    ELSE NaN

\* switch (level) of insertHeading
HeadingStyle(level) ==
    CASE level = 1 -> "heading1"
      [] level = 2 -> "heading2"
      [] level = 3 -> "heading3"
      [] OTHER -> "heading4"

\* what insertHeading does with its two tokens: return the selection
\* untouched, insert a paragraph, or fail reading tag.charAt of undefined
\* (first without the !contentToken test: contentToken.content of undefined)
HeadingOutcomeNoGuard(openToken, contentToken) ==
    IF contentToken = Undefined THEN "TypeError"
    ELSE IF contentToken.content = "" THEN "noop"
    ELSE IF openToken.tag = NoTag THEN "TypeError"
    ELSE "insert"

HeadingOutcome(openToken, contentToken) ==
    IF contentToken = Undefined \/ contentToken.content = "" THEN "noop"
    ELSE IF openToken.tag = NoTag THEN "TypeError"
    ELSE "insert"

\* the loop head: for (let i = 0; i < tokens.length; i++) switch (token.type)
AtCase(type) ==
    /\ pc = "dispatch"
    /\ i < Len(tokens)
    /\ At(tokens, i).type = type

\* the renderers leave a failed render where it stopped
Throw ==
    /\ pc' = "failed"
    /\ err' = "TypeError"
    /\ UNCHANGED <<tokens, i, currentRange, doc>>

DispatchHeading ==
    /\ AtCase("heading_open")
    /\ dispatched' = Append(dispatched, i)
    /\ LET outcome == HeadingOutcome(At(tokens, i), At(tokens, i + 1))
           id == NewId(doc)
           level == ParseInt(CharAt1(At(tokens, i).tag))
       IN  CASE outcome = "TypeError" -> Throw
             [] outcome = "noop" ->
                  /\ i' = (i + 1) + 1
                  /\ UNCHANGED <<tokens, pc, currentRange, doc, err>>
             [] OTHER ->
                  /\ doc' = InsertAfter(doc, currentRange,
                               Element(id, "paragraph", At(tokens, i + 1).content,
                                       HeadingStyle(level), 0, i, i + 1))
                  /\ currentRange' = id
                  /\ i' = (i + 1) + 1
                  /\ UNCHANGED <<tokens, pc, err>>
    /\ UNCHANGED <<rendererVars, tableVars, depth, inlineVars>>

(***************************************************************************)
(* insertCodeBlock, insertHorizontalRule, the default case                 *)
(***************************************************************************)
HrText == "-----------------------------------------"

\* (insertCodeBlock without its test of the content)
DispatchCodeBlockAlways ==
    /\ AtCase("code_block")
    /\ dispatched' = Append(dispatched, i)
    /\ doc' = InsertAfter(doc, currentRange,
                 Element(NewId(doc), "paragraph", At(tokens, i).content,
                         "code", CodeIndent, i, i))
    /\ currentRange' = NewId(doc)
    /\ i' = i + 1
    /\ UNCHANGED <<tokens, pc, err, rendererVars, tableVars, depth, inlineVars>>

DispatchCodeBlock ==
    /\ AtCase("code_block")
    /\ dispatched' = Append(dispatched, i)
    /\ IF At(tokens, i).content = ""
       THEN UNCHANGED <<doc, currentRange>>
       ELSE /\ doc' = InsertAfter(doc, currentRange,
                         Element(NewId(doc), "paragraph", At(tokens, i).content,
                                 "code", CodeIndent, i, i))
            /\ currentRange' = NewId(doc)
    /\ i' = i + 1
    /\ UNCHANGED <<tokens, pc, err, rendererVars, tableVars, depth, inlineVars>>

DispatchHr ==
    /\ AtCase("hr")
    /\ dispatched' = Append(dispatched, i)
    /\ doc' = InsertAfter(doc, currentRange,
                 Element(NewId(doc), "paragraph", HrText, "hr", 0, i, 0 - 1))
    /\ currentRange' = NewId(doc)
    /\ i' = i + 1
    /\ UNCHANGED <<tokens, pc, err, rendererVars, tableVars, depth, inlineVars>>

DispatchedTypes ==
    {"heading_open", "paragraph_open", "bullet_list_open", "ordered_list_open",
     "blockquote_open", "code_block", "hr", "table_open"}

DispatchDefault ==
    /\ pc = "dispatch"
    /\ i < Len(tokens)
    /\ At(tokens, i).type \notin DispatchedTypes
    /\ dispatched' = Append(dispatched, i)
    /\ IF At(tokens, i).content = ""
       THEN UNCHANGED <<doc, currentRange>>
       ELSE /\ doc' = InsertAfter(doc, currentRange,
                         Element(NewId(doc), "text", At(tokens, i).content \o "\n",
                                 "raw", 0, i, i))
            /\ currentRange' = NewId(doc)
    /\ i' = i + 1
    /\ UNCHANGED <<tokens, pc, err, rendererVars, tableVars, depth, inlineVars>>

\* i < tokens.length fails: processMarkdownTokens returns
Finish ==
    /\ pc = "dispatch"
    /\ i >= Len(tokens)
    /\ pc' = "done"
    /\ UNCHANGED <<tokens, i, currentRange, doc, err, dispatched,
                   rendererVars, tableVars, depth, inlineVars>>

(***************************************************************************)
(* insertFormattedParagraph                                                *)
(***************************************************************************)
Run(text, bold, italic, color, underline, fontName, highlight) ==
    [text |-> text, bold |-> bold, italic |-> italic, color |-> color,
     underline |-> underline, fontName |-> fontName, highlightColor |-> highlight]

\* paragraph.insertText(text, Word.InsertLocation.end) with the font set on it
InsertRun(d, para, run) ==
    [d EXCEPT ![PosOf(d, para)].runs = Append(@, run)]

\* the closure applyPendingText: the document and the buffer it leaves
\* (a flush that forgets to emit the buffer)
applyPendingTextDrop(d, para, pending, bold, italic, href) ==
    [doc |-> d, pendingText |-> ""]

\* (a flush without the test for an empty buffer)
applyPendingTextAlways(d, para, pending, bold, italic, href) ==
    [doc |-> InsertRun(d, para,
                 Run(pending, bold, italic,
                     IF href # "" THEN LinkColor ELSE "", href # "", "", "")),
     pendingText |-> ""]

\* (a flush that does not set font.bold and font.italic on the run)
applyPendingTextUnstyled(d, para, pending, bold, italic, href) ==
    IF pending # ""
    THEN [doc |-> InsertRun(d, para,
                     Run(pending, FALSE, FALSE,
                         IF href # "" THEN LinkColor ELSE "", href # "", "", "")),
          pendingText |-> ""]
    ELSE [doc |-> d, pendingText |-> pending]

\* (a flush that emits the buffer and does not clear it)
applyPendingTextKeep(d, para, pending, bold, italic, href) ==
    IF pending # ""
    THEN [doc |-> InsertRun(d, para,
                     Run(pending, bold, italic,
                         IF href # "" THEN LinkColor ELSE "", href # "", "", "")),
          pendingText |-> pending]
    ELSE [doc |-> d, pendingText |-> pending]

applyPendingText(d, para, pending, bold, italic, href) ==
    IF pending # ""
    THEN [doc |-> InsertRun(d, para,
                     Run(pending, bold, italic,
                         IF href # "" THEN LinkColor ELSE "", href # "", "", "")),
          pendingText |-> ""]
    ELSE [doc |-> d, pendingText |-> pending]

\* child.attrs?.find(attr => attr[0] === 'href')?.[1] || ''
HrefOf(attrs) ==
    IF \E n \in 1..Len(attrs) : attrs[n][1] = "href"
    THEN attrs[CHOOSE n \in 1..Len(attrs) :
                 /\ attrs[n][1] = "href"
                 /\ \A m \in 1..(n - 1) : attrs[m][1] # "href"][2]
    ELSE ""

\* the style bit a close token leaves behind
\* (isBold = !isBold in place of isBold = false)
StrongCloseToggle(bold) == ~bold

StrongClose(bold) == FALSE

EmClose(italic) == FALSE

LinkClose(href) == ""

\* (the style state kept from the call before: isBold, isItalic, linkHref
\* and pendingText as variables outside the function)
DispatchParagraphKeepsStyle ==
    /\ AtCase("paragraph_open")
    /\ dispatched' = Append(dispatched, i)
    /\ LET paraContent == At(tokens, i + 1)
           id == NewId(doc)
       IN  IF paraContent # Undefined /\ paraContent.type = "inline"
           THEN /\ doc' = InsertAfter(doc, currentRange,
                             Element(id, "paragraph", "", "plain", 0, i, i + 1))
                /\ IF Len(paraContent.children) = 0
                   THEN \* the empty paragraph is returned at once
                        /\ currentRange' = id
                        /\ i' = (i + 1) + 1
                        /\ UNCHANGED <<pc, inlineVars>>
                   ELSE /\ pc' = "inline"
                        /\ children' = paraContent.children
                        /\ ci' = 0
                        /\ UNCHANGED <<isBold, isItalic, linkHref, pendingText>>
                        /\ paragraph' = id
                        /\ UNCHANGED <<currentRange, i>>
           ELSE /\ i' = (i + 1) + 1
                /\ UNCHANGED <<doc, currentRange, pc, inlineVars>>
    /\ UNCHANGED <<tokens, err, rendererVars, tableVars, depth>>

\* case 'paragraph_open' of the dispatcher, up to the formatter's loop
DispatchParagraph ==
    /\ AtCase("paragraph_open")
    /\ dispatched' = Append(dispatched, i)
    /\ LET paraContent == At(tokens, i + 1)
           id == NewId(doc)
       IN  IF paraContent # Undefined /\ paraContent.type = "inline"
           THEN /\ doc' = InsertAfter(doc, currentRange,
                             Element(id, "paragraph", "", "plain", 0, i, i + 1))
                /\ IF Len(paraContent.children) = 0
                   THEN \* the empty paragraph is returned at once
                        /\ currentRange' = id
                        /\ i' = (i + 1) + 1
                        /\ UNCHANGED <<pc, inlineVars>>
                   ELSE /\ pc' = "inline"
                        /\ children' = paraContent.children
                        /\ ci' = 0
                        /\ isBold' = FALSE
                        /\ isItalic' = FALSE
                        /\ linkHref' = ""
                        /\ pendingText' = ""
                        /\ paragraph' = id
                        /\ UNCHANGED <<currentRange, i>>
           ELSE /\ i' = (i + 1) + 1
                /\ UNCHANGED <<doc, currentRange, pc, inlineVars>>
    /\ UNCHANGED <<tokens, err, rendererVars, tableVars, depth>>

\* (the loop with code_inline treated as text: its content goes into the
\* pending buffer)
InlineStepCodeBuffered ==
    /\ pc = "inline"
    /\ ci < Len(children)
    /\ LET child == children[ci + 1]
           flushed == applyPendingText(doc, paragraph, pendingText,
                                       isBold, isItalic, linkHref)
       IN  CASE child.type = "text" ->
                  /\ pendingText' = pendingText \o child.content
                  /\ UNCHANGED <<doc, isBold, isItalic, linkHref>>
             [] child.type = "strong_open" ->
                  /\ doc' = flushed.doc
                  /\ pendingText' = flushed.pendingText
                  /\ isBold' = TRUE
                  /\ UNCHANGED <<isItalic, linkHref>>
             [] child.type = "strong_close" ->
                  /\ doc' = flushed.doc
                  /\ pendingText' = flushed.pendingText
                  /\ isBold' = StrongClose(isBold)
                  /\ UNCHANGED <<isItalic, linkHref>>
             [] child.type = "em_open" ->
                  /\ doc' = flushed.doc
                  /\ pendingText' = flushed.pendingText
                  /\ isItalic' = TRUE
                  /\ UNCHANGED <<isBold, linkHref>>
             [] child.type = "em_close" ->
                  /\ doc' = flushed.doc
                  /\ pendingText' = flushed.pendingText
                  /\ isItalic' = EmClose(isItalic)
                  /\ UNCHANGED <<isBold, linkHref>>
             [] child.type = "code_inline" ->
                  /\ pendingText' = pendingText \o child.content
                  /\ UNCHANGED <<doc, isBold, isItalic, linkHref>>
             [] child.type = "link_open" ->
                  /\ doc' = flushed.doc
                  /\ pendingText' = flushed.pendingText
                  /\ linkHref' = HrefOf(child.attrs)
                  /\ UNCHANGED <<isBold, isItalic>>
             [] child.type = "link_close" ->
                  /\ doc' = flushed.doc
                  /\ pendingText' = flushed.pendingText
                  /\ linkHref' = LinkClose(linkHref)
                  /\ UNCHANGED <<isBold, isItalic>>
             [] OTHER ->
                  /\ pendingText' = IF child.content # ""
                                    THEN pendingText \o child.content
                                    ELSE pendingText
                  /\ UNCHANGED <<doc, isBold, isItalic, linkHref>>
    /\ ci' = ci + 1
    /\ UNCHANGED <<tokens, pc, i, currentRange, err, dispatched, children, paragraph,
                   rendererVars, tableVars, depth>>

\* one iteration of for (let i = 0; i < inlineToken.children.length; i++)
InlineStep ==
    /\ pc = "inline"
    /\ ci < Len(children)
    /\ LET child == children[ci + 1]
           flushed == applyPendingText(doc, paragraph, pendingText,
                                       isBold, isItalic, linkHref)
       IN  CASE child.type = "text" ->
                  /\ pendingText' = pendingText \o child.content
                  /\ UNCHANGED <<doc, isBold, isItalic, linkHref>>
             [] child.type = "strong_open" ->
                  /\ doc' = flushed.doc
                  /\ pendingText' = flushed.pendingText
                  /\ isBold' = TRUE
                  /\ UNCHANGED <<isItalic, linkHref>>
             [] child.type = "strong_close" ->
                  /\ doc' = flushed.doc
                  /\ pendingText' = flushed.pendingText
                  /\ isBold' = StrongClose(isBold)
                  /\ UNCHANGED <<isItalic, linkHref>>
             [] child.type = "em_open" ->
                  /\ doc' = flushed.doc
                  /\ pendingText' = flushed.pendingText
                  /\ isItalic' = TRUE
                  /\ UNCHANGED <<isBold, linkHref>>
             [] child.type = "em_close" ->
                  /\ doc' = flushed.doc
                  /\ pendingText' = flushed.pendingText
                  /\ isItalic' = EmClose(isItalic)
                  /\ UNCHANGED <<isBold, linkHref>>
             [] child.type = "code_inline" ->
                  /\ doc' = InsertRun(flushed.doc, paragraph,
                               Run(child.content, FALSE, FALSE, "#d63384", FALSE,
                                   "Courier New", "#f8f9fa"))
                  /\ pendingText' = flushed.pendingText
                  /\ UNCHANGED <<isBold, isItalic, linkHref>>
             [] child.type = "link_open" ->
                  /\ doc' = flushed.doc
                  /\ pendingText' = flushed.pendingText
                  /\ linkHref' = HrefOf(child.attrs)
                  /\ UNCHANGED <<isBold, isItalic>>
             [] child.type = "link_close" ->
                  /\ doc' = flushed.doc
                  /\ pendingText' = flushed.pendingText
                  /\ linkHref' = LinkClose(linkHref)
                  /\ UNCHANGED <<isBold, isItalic>>
             [] OTHER ->
                  /\ pendingText' = IF child.content # ""
                                    THEN pendingText \o child.content
                                    ELSE pendingText
                  /\ UNCHANGED <<doc, isBold, isItalic, linkHref>>
    /\ ci' = ci + 1
    /\ UNCHANGED <<tokens, pc, i, currentRange, err, dispatched, children, paragraph,
                   rendererVars, tableVars, depth>>

\* (the return of the cursor that was passed in, in place of the end of the
\* paragraph)
InlineReturnKeepsCursor ==
    /\ pc = "inline"
    /\ ci >= Len(children)
    /\ LET flushed == applyPendingText(doc, paragraph, pendingText,
                                       isBold, isItalic, linkHref)
       IN  /\ doc' = flushed.doc
           /\ pendingText' = flushed.pendingText
    /\ currentRange' = currentRange
    /\ i' = (i + 1) + 1
    /\ pc' = "dispatch"
    /\ UNCHANGED <<tokens, err, dispatched, children, ci, isBold, isItalic, linkHref,
                   paragraph, rendererVars, tableVars, depth>>

\* the loop is over: the last flush, the return to the dispatcher and its i++
InlineReturn ==
    /\ pc = "inline"
    /\ ci >= Len(children)
    /\ LET flushed == applyPendingText(doc, paragraph, pendingText,
                                       isBold, isItalic, linkHref)
       IN  /\ doc' = flushed.doc
           /\ pendingText' = flushed.pendingText
    /\ currentRange' = paragraph
    /\ i' = (i + 1) + 1
    /\ pc' = "dispatch"
    /\ UNCHANGED <<tokens, err, dispatched, children, ci, isBold, isItalic, linkHref,
                   paragraph, rendererVars, tableVars, depth>>

(***************************************************************************)
(* The container cases of the dispatcher: call the renderer, then skip to  *)
(* the matching close with a depth counter.                                *)
(***************************************************************************)
CloseOf(openType) ==
    CASE openType = "bullet_list_open" -> "bullet_list_close"
      [] openType = "ordered_list_open" -> "ordered_list_close"
      [] openType = "blockquote_open" -> "blockquote_close"
      [] openType = "table_open" -> "table_close"
      [] OTHER -> "none"

\* xxx = await insertXxx(context, currentRange, tokens, i): enter the renderer
EnterRenderer(type, loop) ==
    /\ AtCase(type)
    /\ dispatched' = Append(dispatched, i)
    /\ pc' = loop
    /\ si' = i + 1
    /\ selection' = currentRange
    /\ lastParagraph' = 0
    /\ itemNumber' = 1
    /\ startIndex' = i
    /\ tableData' = <<>>
    /\ headerRow' = <<>>
    /\ UNCHANGED <<tokens, i, currentRange, doc, err, depth, inlineVars>>

\* return lastParagraph ? lastParagraph.getRange(end) : selection;
\* then let xxxDepth = 1; i++
ReturnToSkip(result) ==
    /\ currentRange' = result
    /\ depth' = 1
    /\ i' = i + 1
    /\ pc' = "skip"

DispatchBulletList == EnterRenderer("bullet_list_open", "bullet")

DispatchOrderedList == EnterRenderer("ordered_list_open", "ordered")

DispatchBlockquote == EnterRenderer("blockquote_open", "quote")

DispatchTable == EnterRenderer("table_open", "table")

\* the depth counter after looking at one token
\* (a counter that does not count the nested opens)
DepthAfterNoNesting(d, type, openType) ==
    IF type = CloseOf(openType) THEN d - 1 ELSE d

DepthAfter(d, type, openType) ==
    (IF type = openType THEN d + 1 ELSE d)
        - (IF type = CloseOf(openType) THEN 1 ELSE 0)

\* one iteration of while (i < tokens.length && xxxDepth > 0)
SkipStep ==
    /\ pc = "skip"
    /\ i < Len(tokens) /\ depth > 0
    /\ depth' = DepthAfter(depth, At(tokens, i).type, At(tokens, startIndex).type)
    /\ i' = i + 1
    /\ UNCHANGED <<tokens, pc, currentRange, doc, err, dispatched,
                   rendererVars, tableVars, inlineVars>>

\* the skip loop is over: i-- and the for loop's i++
SkipEnd ==
    /\ pc = "skip"
    /\ ~(i < Len(tokens) /\ depth > 0)
    /\ i' = (i - 1) + 1
    /\ pc' = "dispatch"
    /\ UNCHANGED <<tokens, currentRange, doc, err, dispatched, depth,
                   rendererVars, tableVars, inlineVars>>

(***************************************************************************)
(* insertBulletList, insertOrderedList                                     *)
(***************************************************************************)
\* tokens[i].type === 'list_item_open' && tokens[i + 1] &&
\* tokens[i + 1].type === 'paragraph_open'
IsListItem(toks, k) ==
    At(toks, k).type = "list_item_open" /\ IsType(toks, k + 1, "paragraph_open")

\* contentToken && contentToken.type === 'inline' && contentToken.content
\* (first without the test of the content)
HasInlineContentOrNone(toks, k) == IsType(toks, k, "inline")

HasInlineContent(toks, k) ==
    IsType(toks, k, "inline") /\ At(toks, k).content # ""

\* the paragraph text of an item (and the same with the prefix forgotten)
BulletTextNoPrefix(content) == content

BulletText(content) == BulletPrefix \o content

\* (the same with the counter not used)
OrderedTextFixed(n, content) == "1. " \o content

OrderedText(n, content) == ToString(n) \o ". " \o content

\* one iteration of the while loop of insertBulletList
BulletListStep ==
    /\ pc = "bullet"
    /\ si < Len(tokens) /\ At(tokens, si).type # "bullet_list_close"
    /\ IF IsListItem(tokens, si)
       THEN /\ IF HasInlineContent(tokens, si + 2)
               THEN /\ doc' = InsertAfter(doc, selection,
                                 Element(NewId(doc), "paragraph",
                                         BulletText(At(tokens, si + 2).content),
                                         "plain", ListIndent, startIndex, si + 2))
                    /\ lastParagraph' = NewId(doc)
                    /\ selection' = NewId(doc)
               ELSE UNCHANGED <<doc, lastParagraph, selection>>
            /\ si' = si + 3
       ELSE /\ si' = si + 1
            /\ UNCHANGED <<doc, lastParagraph, selection>>
    /\ UNCHANGED <<tokens, pc, i, currentRange, err, dispatched, itemNumber,
                   startIndex, tableVars, depth, inlineVars>>

BulletListReturn ==
    /\ pc = "bullet"
    /\ ~(si < Len(tokens) /\ At(tokens, si).type # "bullet_list_close")
    /\ ReturnToSkip(IF lastParagraph # 0 THEN lastParagraph ELSE selection)
    /\ UNCHANGED <<tokens, doc, err, dispatched, rendererVars, tableVars, inlineVars>>

\* one iteration of the while loop of insertOrderedList
OrderedListStep ==
    /\ pc = "ordered"
    /\ si < Len(tokens) /\ At(tokens, si).type # "ordered_list_close"
    /\ IF IsListItem(tokens, si)
       THEN /\ IF HasInlineContent(tokens, si + 2)
               THEN /\ doc' = InsertAfter(doc, selection,
                                 Element(NewId(doc), "paragraph",
                                         OrderedText(itemNumber,
                                                     At(tokens, si + 2).content),
                                         "plain", ListIndent, startIndex, si + 2))
                    /\ lastParagraph' = NewId(doc)
                    /\ selection' = NewId(doc)
                    /\ itemNumber' = itemNumber + 1
               ELSE UNCHANGED <<doc, lastParagraph, selection, itemNumber>>
            /\ si' = si + 3
       ELSE /\ si' = si + 1
            /\ UNCHANGED <<doc, lastParagraph, selection, itemNumber>>
    /\ UNCHANGED <<tokens, pc, i, currentRange, err, dispatched,
                   startIndex, tableVars, depth, inlineVars>>

OrderedListReturn ==
    /\ pc = "ordered"
    /\ ~(si < Len(tokens) /\ At(tokens, si).type # "ordered_list_close")
    /\ ReturnToSkip(IF lastParagraph # 0 THEN lastParagraph ELSE selection)
    /\ UNCHANGED <<tokens, doc, err, dispatched, rendererVars, tableVars, inlineVars>>

(***************************************************************************)
(* insertBlockquote                                                        *)
(***************************************************************************)
BlockquoteStep ==
    /\ pc = "quote"
    /\ si < Len(tokens) /\ At(tokens, si).type # "blockquote_close"
    /\ IF At(tokens, si).type = "paragraph_open" /\ IsType(tokens, si + 1, "inline")
       THEN /\ IF At(tokens, si + 1).content # ""
               THEN /\ doc' = InsertAfter(doc, selection,
                                 Element(NewId(doc), "paragraph",
                                         At(tokens, si + 1).content,
                                         "quote", QuoteIndent, startIndex, si + 1))
                    /\ lastParagraph' = NewId(doc)
                    /\ selection' = NewId(doc)
               ELSE UNCHANGED <<doc, lastParagraph, selection>>
            /\ si' = si + 2
       ELSE /\ si' = si + 1
            /\ UNCHANGED <<doc, lastParagraph, selection>>
    /\ UNCHANGED <<tokens, pc, i, currentRange, err, dispatched, itemNumber,
                   startIndex, tableVars, depth, inlineVars>>

BlockquoteReturn ==
    /\ pc = "quote"
    /\ ~(si < Len(tokens) /\ At(tokens, si).type # "blockquote_close")
    /\ ReturnToSkip(IF lastParagraph # 0 THEN lastParagraph ELSE selection)
    /\ UNCHANGED <<tokens, doc, err, dispatched, rendererVars, tableVars, inlineVars>>

(***************************************************************************)
(* insertTable: the scan that collects tableData                           *)
(***************************************************************************)
\* the outer loop: while (i < tokens.length && tokens[i].type !== 'table_close')
TableStep ==
    /\ pc = "table"
    /\ si < Len(tokens) /\ At(tokens, si).type # "table_close"
    /\ CASE At(tokens, si).type = "thead_open" ->
              /\ pc' = "thead"
              /\ UNCHANGED si
         [] At(tokens, si).type = "tbody_open" ->
              /\ pc' = "tbody"
              /\ UNCHANGED si
         [] OTHER ->
              /\ si' = si + 1
              /\ UNCHANGED pc
    /\ UNCHANGED <<tokens, i, currentRange, doc, err, dispatched, selection,
                   lastParagraph, itemNumber, startIndex, tableVars, depth, inlineVars>>

\* while (i < tokens.length && tokens[i].type !== closeType): a tr_open starts
\* a fresh row, and every iteration ends with i++
SectionStep(loop, closeType, rowLoop) ==
    /\ pc = loop
    /\ si < Len(tokens) /\ At(tokens, si).type # closeType
    /\ IF At(tokens, si).type = "tr_open"
       THEN /\ headerRow' = <<>>
            /\ si' = si + 1
            /\ pc' = rowLoop
       ELSE /\ si' = si + 1
            /\ UNCHANGED <<headerRow, pc>>
    /\ UNCHANGED <<tokens, i, currentRange, doc, err, dispatched, selection,
                   lastParagraph, itemNumber, startIndex, tableData, depth, inlineVars>>

SectionExit(loop, closeType) ==
    /\ pc = loop
    /\ ~(si < Len(tokens) /\ At(tokens, si).type # closeType)
    /\ pc' = "table"
    /\ UNCHANGED <<tokens, i, currentRange, doc, err, dispatched, rendererVars,
                   tableVars, depth, inlineVars>>

\* while (i < tokens.length && tokens[i].type !== 'tr_close'): collect a cell
RowStep(rowLoop, cellType) ==
    /\ pc = rowLoop
    /\ si < Len(tokens) /\ At(tokens, si).type # "tr_close"
    /\ IF At(tokens, si).type = cellType /\ IsType(tokens, si + 1, "inline")
       THEN /\ headerRow' = Append(headerRow, At(tokens, si + 1).content)
            /\ si' = si + 2
       ELSE /\ si' = si + 1
            /\ UNCHANGED headerRow
    /\ UNCHANGED <<tokens, pc, i, currentRange, doc, err, dispatched, selection,
                   lastParagraph, itemNumber, startIndex, tableData, depth, inlineVars>>

\* if (row.length > 0) tableData.push(row)
PushRow(data, row) == IF Len(row) > 0 THEN Append(data, row) ELSE data

\* the row is over: push it when it has cells, then the section loop's i++
RowExit(rowLoop, loop) ==
    /\ pc = rowLoop
    /\ ~(si < Len(tokens) /\ At(tokens, si).type # "tr_close")
    /\ tableData' = PushRow(tableData, headerRow)
    /\ si' = si + 1
    /\ pc' = loop
    /\ UNCHANGED <<tokens, i, currentRange, doc, err, dispatched, selection,
                   lastParagraph, itemNumber, startIndex, headerRow, depth, inlineVars>>

TheadStep == SectionStep("thead", "thead_close", "thead_tr")

TheadExit == SectionExit("thead", "thead_close")

TheadRowStep == RowStep("thead_tr", "th_open")

TheadRowExit == RowExit("thead_tr", "thead")

TbodyStep == SectionStep("tbody", "tbody_close", "tbody_tr")

TbodyExit == SectionExit("tbody", "tbody_close")

TbodyRowStep == RowStep("tbody_tr", "td_open")

TbodyRowExit == RowExit("tbody_tr", "tbody")

(***************************************************************************)
(* insertTable: the table put into the document                            *)
(***************************************************************************)
Cell(value, bold, color, alignment) ==
    [value |-> value, bold |-> bold, color |-> color,
     horizontalAlignment |-> alignment]

\* a cell of the table insertTable(rowCount, colCount) creates
EmptyCell == Cell("", FALSE, "", "")

\* if (row === 0) { bold, color, centered }
\* (the same with the test forgotten: every row styled)
IsHeaderRowAlways(r) == TRUE

IsHeaderRow(r) == r = 0

\* (the loops without the test col < colCount: a row longer than row 0 is
\* written in full)
TableCellsUnbounded(data, rowCount, colCount) ==
    [r \in 1..rowCount |->
        [c \in 1..(IF Len(data[r]) > colCount THEN Len(data[r]) ELSE colCount) |->
            IF c <= Len(data[r])
            THEN IF IsHeaderRow(r - 1)
                 THEN Cell(data[r][c], TRUE, HeaderColor, "centered")
                 ELSE Cell(data[r][c], FALSE, "", "")
            ELSE EmptyCell]]

\* the two for loops over tableData[row][col], col < colCount
TableCells(data, rowCount, colCount) ==
    [r \in 1..rowCount |->
        [c \in 1..colCount |->
            IF c <= Len(data[r])
            THEN IF IsHeaderRow(r - 1)
                 THEN Cell(data[r][c], TRUE, HeaderColor, "centered")
                 ELSE Cell(data[r][c], FALSE, "", "")
            ELSE EmptyCell]]

\* tableData.length and tableData[0].length
RowCount(data) == Len(data)
ColCount(data) == Len(data[1])

\* if (tableData.length > 0 && tableData[0].length > 0)
HasTableData(data) == Len(data) > 0 /\ Len(data[1]) > 0

\* the three insertions of insertTable, in the order the source makes them:
\* tableParagraph after the selection, the table after tableParagraph,
\* afterParagraph after the selection
TableInserted(d, sel, data, blk) ==
    LET tableParagraph == NewId(d)
        d1 == InsertAfter(d, sel,
                  Element(tableParagraph, "paragraph", "", "spaceBefore", 0, blk, 0 - 1))
        table == NewId(d1)
        d2 == InsertAfter(d1, tableParagraph,
                  [Element(table, "table", "", "gridTable4_Accent1", 0, blk, 0 - 1)
                     EXCEPT !.cells = TableCells(data, RowCount(data), ColCount(data))])
        afterParagraph == NewId(d2)
        d3 == InsertAfter(d2, sel,
                  Element(afterParagraph, "paragraph", "", "spaceAfter", 0, blk, 0 - 1))
    IN  [doc |-> d3, range |-> afterParagraph]

\* (the spacer paragraph inserted before the test for data)
TableReturnSpacer ==
    /\ pc = "table"
    /\ ~(si < Len(tokens) /\ At(tokens, si).type # "table_close")
    /\ IF HasTableData(tableData)
       THEN LET result == TableInserted(doc, selection, tableData, startIndex)
            IN  /\ doc' = result.doc
                /\ ReturnToSkip(result.range)
       ELSE /\ doc' = InsertAfter(doc, selection,
                         Element(NewId(doc), "paragraph", "", "spaceBefore", 0,
                                 startIndex, 0 - 1))
            /\ ReturnToSkip(NewId(doc))
    /\ UNCHANGED <<tokens, err, dispatched, rendererVars, tableVars, inlineVars>>

\* the outer loop is over: create the table if there is data, and return
TableReturn ==
    /\ pc = "table"
    /\ ~(si < Len(tokens) /\ At(tokens, si).type # "table_close")
    /\ IF HasTableData(tableData)
       THEN LET result == TableInserted(doc, selection, tableData, startIndex)
            IN  /\ doc' = result.doc
                /\ ReturnToSkip(result.range)
       ELSE /\ UNCHANGED doc
            /\ ReturnToSkip(selection)
    /\ UNCHANGED <<tokens, err, dispatched, rendererVars, tableVars, inlineVars>>

(***************************************************************************)
(* The token arrays the render is checked on.                              *)
(***************************************************************************)
SeqsUpTo(S, n) == UNION {[1..m -> S] : m \in 0..n}

RECURSIVE Flatten(_)
Flatten(ss) == IF Len(ss) = 0 THEN <<>> ELSE Head(ss) \o Flatten(Tail(ss))

\* every array of at most MaxLen tokens over three small alphabets:
\* the streams no parser would produce
LeafAlphabet ==
    {Heading("h1"), Heading(NoTag), Token("paragraph_open", ""), InlineText("a"),
     InlineText(""), Token("code_block", "c"), Token("code_block", ""),
     Token("hr", ""), Token("html_block", "t"), Token("paragraph_close", "")}

ListAlphabet ==
    {Token("bullet_list_open", ""), Token("bullet_list_close", ""),
     Token("ordered_list_open", ""), Token("ordered_list_close", ""),
     Token("blockquote_open", ""), Token("blockquote_close", ""),
     Token("list_item_open", ""), Token("paragraph_open", ""), InlineText("a")}

TableAlphabet ==
    {Token("table_open", ""), Token("table_close", ""), Token("thead_open", ""),
     Token("thead_close", ""), Token("tbody_open", ""), Token("tr_open", ""),
     Token("tr_close", ""), Token("th_open", ""), Token("td_open", ""),
     InlineText("a")}

ArbitraryArrays ==
    SeqsUpTo(LeafAlphabet, MaxLen) \cup SeqsUpTo(ListAlphabet, MaxLen)
        \cup SeqsUpTo(TableAlphabet, MaxLen)

\* what markdown-it emits for a paragraph
ParagraphTokens(inline) ==
    <<Token("paragraph_open", ""), inline, Token("paragraph_close", "")>>

\* headings: every tag shape, in front of every kind of next token
HeadingTags == {"h1", "h2", "h3", "h4", "h6", "h", "", "hx", NoTag}

HeadingArrays ==
    {<<Heading(t)>> \o rest :
        t \in HeadingTags,
        rest \in {<<>>, <<InlineText("a"), Token("heading_close", "")>>,
                  <<InlineText(""), Token("heading_close", "")>>,
                  <<Token("html_block", "t")>>}}

\* paragraphs: every children list of at most MaxChildren inline tokens
InlineAlphabet ==
    {Child("text", "a"), Child("text", "b"), Child("strong_open", ""),
     Child("strong_close", ""), Child("em_open", ""), Child("em_close", ""),
     Child("code_inline", "c"), LinkOpen(<<<<"href", "u">>>>),
     LinkOpen(<<<<"title", "t">>>>), Child("link_close", ""),
     Child("softbreak", ""), Child("html_inline", "h")}

ParagraphArrays ==
    {ParagraphTokens(Inline("p", ch)) : ch \in SeqsUpTo(InlineAlphabet, MaxChildren)}

\* lists: items with text a, b, empty text or no paragraph at all, an item
\* holding nested lists of the same kind `nested` levels deep; the markers of
\* an ordered list either count from 1 or leave gaps
ItemShapes ==
    {[content |-> "a", nested |-> 0], [content |-> "b", nested |-> 0],
     [content |-> "", nested |-> 0], [content |-> "<none>", nested |-> 0],
     [content |-> "a", nested |-> 1], [content |-> "a", nested |-> 2]}

ListKinds == {"bullet", "ordered", "ordered_gaps"}

ListOpenType(kind) ==
    IF kind = "bullet" THEN "bullet_list_open" ELSE "ordered_list_open"

Marker(kind, n) ==
    CASE kind = "bullet" -> ""
      [] kind = "ordered" -> ToString(n)
      [] OTHER -> ToString(2 * n + 1)

RECURSIVE ListTokens(_, _)
ItemTokens(kind, item, n) ==
    <<[Token("list_item_open", "") EXCEPT !.info = Marker(kind, n)]>>
    \o (IF item.content = "<none>" THEN <<>>
        ELSE ParagraphTokens(InlineText(item.content)))
    \o (IF item.nested > 0
        THEN ListTokens(kind, <<[content |-> "x", nested |-> item.nested - 1]>>)
        ELSE <<>>)
    \o <<Token("list_item_close", "")>>

ListTokens(kind, items) ==
    <<Token(ListOpenType(kind), "")>>
    \o Flatten([n \in 1..Len(items) |-> ItemTokens(kind, items[n], n)])
    \o <<Token(CloseOf(ListOpenType(kind)), "")>>

ListArrays ==
    {ListTokens(kind, items) :
        kind \in ListKinds, items \in SeqsUpTo(ItemShapes, MaxItems)}

\* block quotes: paragraphs a, b or empty, or a nested quote
QuoteShapes == {"a", "b", "", "<quote>"}

QuotePartTokens(part) ==
    IF part = "<quote>"
    THEN <<Token("blockquote_open", "")>> \o ParagraphTokens(InlineText("x"))
             \o <<Token("blockquote_close", "")>>
    ELSE ParagraphTokens(InlineText(part))

QuoteTokens(parts) ==
    <<Token("blockquote_open", "")>>
    \o Flatten([n \in 1..Len(parts) |-> QuotePartTokens(parts[n])])
    \o <<Token("blockquote_close", "")>>

QuoteArrays == {QuoteTokens(parts) : parts \in SeqsUpTo(QuoteShapes, MaxItems)}

\* tables: no header section, or one with no, one or two rows, and up to
\* MaxBodyRows body rows; a row is given by its number of cells, 0..MaxCols
CellText(letter, r, c) == letter \o ToString(r) \o ToString(c)

RowTokens(cellType, letter, r, n) ==
    <<Token("tr_open", "")>>
    \o Flatten([c \in 1..n |->
                  <<Token(cellType \o "_open", ""), InlineText(CellText(letter, r, c)),
                    Token(cellType \o "_close", "")>>])
    \o <<Token("tr_close", "")>>

SectionTokens(section, cellType, letter, rows) ==
    <<Token(section \o "_open", "")>>
    \o Flatten([r \in 1..Len(rows) |-> RowTokens(cellType, letter, r, rows[r])])
    \o <<Token(section \o "_close", "")>>

TableTokens(table) ==
    <<Token("table_open", "")>>
    \o (IF table.thead THEN SectionTokens("thead", "th", "H", table.header) ELSE <<>>)
    \o (IF table.tbody THEN SectionTokens("tbody", "td", "D", table.body) ELSE <<>>)
    \o <<Token("table_close", "")>>

HeaderShapes == SeqsUpTo(0..MaxCols, 1) \cup {<<1, 2>>, <<2, 1>>, <<0, 1>>}

TableShapes ==
    {[thead |-> TRUE, header |-> h, tbody |-> TRUE, body |-> b] :
        h \in HeaderShapes, b \in SeqsUpTo(0..MaxCols, MaxBodyRows)}
    \cup {[thead |-> FALSE, header |-> <<>>, tbody |-> TRUE, body |-> b] :
        b \in SeqsUpTo(0..MaxCols, MaxBodyRows)}
    \cup {[thead |-> TRUE, header |-> h, tbody |-> FALSE, body |-> <<>>] :
        h \in HeaderShapes}
    \cup {[thead |-> FALSE, header |-> <<>>, tbody |-> FALSE, body |-> <<>>]}

TableArrays == {TableTokens(t) : t \in TableShapes}

\* the containers alone and between other blocks
ContainerArrays == ListArrays \cup QuoteArrays \cup TableArrays

EmbeddedArrays ==
    {<<Token("hr", "")>> \o c \o ParagraphTokens(InlineText("z")) :
        c \in ContainerArrays}

\* the documents of the renderer's test list
ExampleList(kind) ==
    ListTokens(kind, <<[content |-> "a", nested |-> 0], [content |-> "b", nested |-> 0],
                       [content |-> "c", nested |-> 0]>>)

ExampleTable ==
    TableTokens([thead |-> TRUE, header |-> <<2>>, tbody |-> TRUE, body |-> <<2, 2>>])

ExampleNested ==
    ListTokens("bullet", <<[content |-> "a", nested |-> 2], [content |-> "b", nested |-> 0]>>)

\* a **b** *c* `d` [e](u) f, and the same with the opens lost
ExampleChildren ==
    <<Child("text", "a"), Child("strong_open", ""), Child("text", "b"),
      Child("strong_close", ""), Child("em_open", ""), Child("text", "c"),
      Child("em_close", ""), Child("code_inline", "d"),
      LinkOpen(<<<<"title", "t">>, <<"href", "u">>>>), Child("text", "e"),
      Child("link_close", ""), Child("text", "f")>>

ExampleUnmatched ==
    <<Child("text", "a"), Child("text", "b"), Child("strong_close", ""),
      Child("text", "c"), Child("em_close", ""), Child("code_inline", "d"),
      Child("text", "e"), Child("link_close", ""), Child("text", "f"),
      Child("strong_open", ""), Child("text", "g")>>

ExampleArrays ==
    {ParagraphTokens(Inline("p", ExampleChildren)),
     ParagraphTokens(Inline("p", ExampleUnmatched)),
     ParagraphTokens(Inline("p", ExampleUnmatched))
        \o ParagraphTokens(Inline("q", ExampleChildren)),
     ExampleList("bullet"), ExampleList("ordered_gaps"), ExampleTable, ExampleNested,
     ListTokens("ordered_gaps",
                <<[content |-> "", nested |-> 0], [content |-> "a", nested |-> 0],
                  [content |-> "b", nested |-> 0]>>),
     ExampleTable \o ExampleTable,
     <<Heading("h1"), InlineText("a"), Token("heading_close", "")>> \o ExampleTable
        \o ExampleList("bullet") \o <<Token("code_block", "c")>>,
     QuoteTokens(<<"a", "<quote>", "b">>) \o ExampleNested}

\* well-formed documents damaged: one token lost, or the array cut short
DropToken(toks, n) == SubSeq(toks, 1, n - 1) \o SubSeq(toks, n + 1, Len(toks))

DamagedArrays ==
    UNION {{DropToken(toks, n) : n \in 1..Len(toks)}
              \cup {SubSeq(toks, 1, n) : n \in 0..Len(toks)} :
           toks \in {ExampleTable, ExampleNested, QuoteTokens(<<"a", "<quote>", "b">>),
                     ExampleList("ordered")}}

\* a table with cell texts of its own
OtherTable ==
    <<Token("table_open", "")>> \o SectionTokens("thead", "th", "K", <<1>>)
        \o SectionTokens("tbody", "td", "L", <<1>>) \o <<Token("table_close", "")>>

\* damaged containers with further blocks behind them: a table that lost one
\* token in front of another table, and a list whose item was cut off behind
\* its paragraph_open in front of the whole list
CutItem(list) ==
    SubSeq(list, 1, 3) \o <<Token(CloseOf(list[1].type), "")>> \o list

OverrunArrays ==
    LET table == TableTokens([thead |-> TRUE, header |-> <<1>>,
                              tbody |-> TRUE, body |-> <<1>>])
    IN  {DropToken(table, n) \o OtherTable : n \in 1..Len(table)}
            \cup {CutItem(ListTokens(kind, <<[content |-> "a", nested |-> 0]>>)) :
                     kind \in {"bullet", "ordered"}}

\* a table with a row shorter and a row longer than its header row
RaggedTable ==
    TableTokens([thead |-> TRUE, header |-> <<MaxCols>>,
                 tbody |-> TRUE, body |-> <<1, MaxCols + 1>>])

RenderInputs ==
    ArbitraryArrays \cup HeadingArrays \cup ParagraphArrays \cup ContainerArrays
        \cup EmbeddedArrays \cup ExampleArrays \cup DamagedArrays
        \cup OverrunArrays \cup {RaggedTable}

(***************************************************************************)
(* The task pane around the render: the session, what the pane shows, and  *)
(* the generations in flight.  generateAndInsertText is an async function: *)
(* a call runs from one await to the next in one piece, and every await of *)
(* a fetch, a timer or context.sync is a place where other handlers run.   *)
(*   authToken, userEmail  the module's authentication state               *)
(*   localStorage  the stored token and email                              *)
(*   view          the section shown: "loggedIn" or "loggedOut"            *)
(*   status        the status element: message and type                    *)
(*   promptInput   the value of the prompt textarea                        *)
(*   sourcesShown  whether the sources section is displayed                *)
(*   calls         the calls of generateAndInsertText, by click            *)
(*   running       the call whose insertTextAtCursor is between Word.run's *)
(*                 batch entry and its context.sync (0: none)              *)
(*   overlapWaits  history: retries granted while two calls were in flight *)
(***************************************************************************)
VARIABLES authToken, userEmail, localStorage, view, status, promptInput,
          sourcesShown, calls, running, overlapWaits

sessionVars == <<authToken, userEmail, localStorage, view>>
paneVars == <<status, promptInput, sourcesShown>>
appVars == <<sessionVars, paneVars, calls, running, overlapWaits>>
allVars == <<vars, appVars>>

\* null of authToken, userEmail and localStorage.getItem
Null == "<null>"

Calls == 1..MaxCalls

\* a call that was not made yet; text and sources are aiResponse, error the
\* message of the error that reached the catch of generateAndInsertText.
\* History: syncs counts the context.sync calls issued, walk tells how far
\* processMarkdownTokens came, failure and unauthorized tell that the server
\* answered status "failure" or HTTP 401.
NoCall ==
    [pc |-> "idle", attempts |-> 0, text |-> "", sources |-> "", error |-> "",
     syncs |-> 0, walk |-> "none", failure |-> FALSE, unauthorized |-> FALSE]

Status(message, type) == [message |-> message, type |-> type]

\* the pane before Office.onReady, with nobody logged in
NoTaskPane ==
    /\ authToken = Null
    /\ userEmail = Null
    /\ localStorage = [token |-> Null, email |-> Null]
    /\ view = "loggedOut"
    /\ status = Status("", "none")
    /\ promptInput = ""
    /\ sourcesShown = FALSE
    /\ calls = [c \in Calls |-> NoCall]
    /\ running = 0
    /\ overlapWaits = 0

(***************************************************************************)
(* The render: insertTextAtCursor has cleared the selection and calls      *)
(* processMarkdownTokens(context, selection, tokens).                      *)
(***************************************************************************)
Init ==
    /\ NoTaskPane
    /\ tokens \in RenderInputs
    /\ pc = "dispatch"
    /\ i = 0
    /\ currentRange = 0
    /\ doc = <<>>
    /\ err = "none"
    /\ dispatched = <<>>
    /\ si = 0
    /\ selection = 0
    /\ lastParagraph = 0
    /\ itemNumber = 1
    /\ startIndex = 0
    /\ tableData = <<>>
    /\ headerRow = <<>>
    /\ depth = 0
    /\ children = <<>>
    /\ ci = 0
    /\ isBold = FALSE
    /\ isItalic = FALSE
    /\ linkHref = ""
    /\ pendingText = ""
    /\ paragraph = 0

\* one step of processMarkdownTokens and the renderers it calls; the task
\* pane is left as it is
Next ==
    \/ DispatchHeading /\ UNCHANGED appVars
    \/ DispatchParagraph /\ UNCHANGED appVars
    \/ InlineStep /\ UNCHANGED appVars
    \/ InlineReturn /\ UNCHANGED appVars
    \/ DispatchBulletList /\ UNCHANGED appVars
    \/ BulletListStep /\ UNCHANGED appVars
    \/ BulletListReturn /\ UNCHANGED appVars
    \/ DispatchOrderedList /\ UNCHANGED appVars
    \/ OrderedListStep /\ UNCHANGED appVars
    \/ OrderedListReturn /\ UNCHANGED appVars
    \/ DispatchBlockquote /\ UNCHANGED appVars
    \/ BlockquoteStep /\ UNCHANGED appVars
    \/ BlockquoteReturn /\ UNCHANGED appVars
    \/ DispatchCodeBlock /\ UNCHANGED appVars
    \/ DispatchHr /\ UNCHANGED appVars
    \/ DispatchTable /\ UNCHANGED appVars
    \/ TableStep /\ UNCHANGED appVars
    \/ TheadStep /\ UNCHANGED appVars
    \/ TheadExit /\ UNCHANGED appVars
    \/ TheadRowStep /\ UNCHANGED appVars
    \/ TheadRowExit /\ UNCHANGED appVars
    \/ TbodyStep /\ UNCHANGED appVars
    \/ TbodyExit /\ UNCHANGED appVars
    \/ TbodyRowStep /\ UNCHANGED appVars
    \/ TbodyRowExit /\ UNCHANGED appVars
    \/ TableReturn /\ UNCHANGED appVars
    \/ SkipStep /\ UNCHANGED appVars
    \/ SkipEnd /\ UNCHANGED appVars
    \/ DispatchDefault /\ UNCHANGED appVars
    \/ Finish /\ UNCHANGED appVars

Spec == Init /\ [][Next]_vars

(***************************************************************************)
(* The server and the host as the task pane sees them.                     *)
(* A response is what fetch resolves with; status 0 stands for a fetch     *)
(* that rejects.  The body holds the fields the source reads.              *)
(***************************************************************************)
Body(error, task_id, state, progress, text, sources) ==
    [error |-> error, task_id |-> task_id, status |-> state, progress |-> progress,
     text |-> text, sources |-> sources]

NoBody == Body("", "", "", "", "", "")

Http(code, statusText, body) ==
    [status |-> code, statusText |-> statusText, body |-> body]

NetworkError == Http(0, "", NoBody)

\* response.ok
Ok(r) == r.status >= 200 /\ r.status <= 299

\* a document with every kind of block, and what markdown-it makes of it
RichText ==
    "# a\n\nb\n\n- c\n\n1. d\n\n> e\n\n    f\n\n---\n\n| H11 |\n| --- |\n| D11 |\n\n~~~\ng\n~~~"

RichTokens ==
    <<Heading("h1"), InlineText("a"), Token("heading_close", "")>>
    \o ParagraphTokens(InlineText("b"))
    \o ListTokens("bullet", <<[content |-> "c", nested |-> 0]>>)
    \o ListTokens("ordered", <<[content |-> "d", nested |-> 0]>>)
    \o QuoteTokens(<<"e">>)
    \o <<Token("code_block", "f\n"), Token("hr", "")>>
    \o TableTokens([thead |-> TRUE, header |-> <<1>>, tbody |-> TRUE, body |-> <<1>>])
    \o <<Token("fence", "g\n")>>

\* md.parse(text, {}): nothing for the empty text, a paragraph for plain text
Parse(text) ==
    CASE text = "" -> <<>>
      [] text = RichText -> RichTokens
      [] OTHER -> ParagraphTokens(InlineText(text))

\* String.prototype.includes
Includes(s, sub) ==
    \E k \in 1..(Len(s) - Len(sub) + 1) : SubSeq(s, k, k + Len(sub) - 1) = sub

\* String.prototype.trim
IsSpace(c) == c \in {" ", "\n"}

RECURSIVE Trim(_)
Trim(s) ==
    IF Len(s) > 0 /\ IsSpace(SubSeq(s, 1, 1)) THEN Trim(SubSeq(s, 2, Len(s)))
    ELSE IF Len(s) > 0 /\ IsSpace(SubSeq(s, Len(s), Len(s)))
         THEN Trim(SubSeq(s, 1, Len(s) - 1))
         ELSE s

\* what the server answers to POST /prompt/start
StartResponses ==
    {Http(200, "OK", Body("", "t1", "", "", "", "")),
     Http(200, "OK", NoBody),
     Http(401, "Unauthorized", NoBody),
     Http(429, "Too Many Requests", NoBody),
     Http(500, "Internal Server Error", NoBody),
     Http(403, "Forbidden", NoBody),
     Http(403, "Forbidden", Body("Token rejected (401)", "", "", "", "", "")),
     NetworkError}

\* what the server answers to GET /prompt/status/<taskId>
StatusResponses ==
    {Http(200, "OK", Body("", "", "success", "", " a ", "")),
     Http(200, "OK", Body("", "", "success", "", RichText, "web_search")),
     Http(200, "OK", Body("", "", "success", "", " ", "")),
     Http(200, "OK", Body("", "", "success", "", "", "")),
     Http(200, "OK", Body("task crashed", "", "failure", "", "", "")),
     Http(200, "OK", Body("", "", "failure", "", "", "")),
     Http(200, "OK", Body("", "", "pending", "", "", "")),
     Http(200, "OK", Body("", "", "started", "Thinking...", "", "")),
     Http(200, "OK", Body("", "", "queued", "", "", "")),
     Http(401, "Unauthorized", NoBody),
     Http(503, "Service Unavailable", NoBody),
     Http(403, "Forbidden", Body("Token rejected (401)", "", "", "", "", "")),
     NetworkError}

\* errorData.error, or else the status line of the response
ErrorMessage(r) ==
    IF r.body.error # "" THEN r.body.error
    ELSE "HTTP " \o ToString(r.status) \o ": " \o r.statusText

\* the message of the error startAsyncQuery throws on a response, "" if none
StartError(r) ==
    CASE r.status = 0 -> "Failed to fetch"
      [] r.status = 401 -> "Authentication failed. Please log in again."
      [] r.status = 429 -> "Rate limit exceeded. Please try again later."
      [] r.status = 500 -> "Server error. Please try again later."
      [] ~Ok(r) -> ErrorMessage(r)
      [] r.body.task_id = "" -> "No task ID received from server"
      [] OTHER -> ""

\* the message of the error the try block of pollTaskStatus throws on a
\* response, "" if it throws none
PollError(r) ==
    CASE r.status = 0 -> "Failed to fetch"
      [] r.status = 401 -> "Authentication failed. Please log in again."
      [] ~Ok(r) -> ErrorMessage(r)
      [] r.body.status = "success" /\ r.body.text = "" ->
             "No text field found in API response"
      [] r.body.status = "failure" ->
             IF r.body.error # "" THEN r.body.error ELSE "Query processing failed"
      [] OTHER -> ""

\* the catch of the polling loop: re-throw, or wait and retry
Rethrown(message) == Includes(message, "401") \/ Includes(message, "Authentication")

\* the message of what a failed render throws
ThrownMessage(e) ==
    IF e = "TypeError" THEN "Cannot read properties of undefined (reading 'charAt')"
    ELSE "GeneralException"

(***************************************************************************)
(* The task pane.  A handler runs until it awaits a fetch, a timer or the  *)
(* commit; the awaits of processMarkdownTokens are on functions that never *)
(* suspend, so no click, response or timer is handled before the walk of a *)
(* render has ended and its commit is issued.                              *)
(***************************************************************************)
\* handlers that would run at every await of the walk
YieldedAtEveryAwait == \A c \in Calls : calls[c].pc # "ended"

Yielded == running = 0 /\ \A c \in Calls : calls[c].pc # "ended"

\* the calls between the click and the end of generateAndInsertText
InFlight == {c \in Calls : calls[c].pc \notin {"idle", "ended"}}

\* the locals of a render whose token walk stands at this label
Renderer(toks, label) ==
    /\ tokens' = toks
    /\ pc' = label
    /\ i' = 0
    /\ currentRange' = 0
    /\ doc' = <<>>
    /\ err' = "none"
    /\ dispatched' = <<>>
    /\ si' = 0
    /\ selection' = 0
    /\ lastParagraph' = 0
    /\ itemNumber' = 1
    /\ startIndex' = 0
    /\ tableData' = <<>>
    /\ headerRow' = <<>>
    /\ depth' = 0
    /\ children' = <<>>
    /\ ci' = 0
    /\ isBold' = FALSE
    /\ isItalic' = FALSE
    /\ linkHref' = ""
    /\ pendingText' = ""
    /\ paragraph' = 0

\* the batch of Word.run is over: its context and its locals are gone
RenderEnd == Renderer(<<>>, "idle")

\* processMarkdownTokens(context, selection, tokens) is entered
RenderStart(toks) == Renderer(toks, "dispatch")

\* no render is running
NoRender ==
    /\ tokens = <<>> /\ pc = "idle" /\ i = 0 /\ currentRange = 0 /\ doc = <<>>
    /\ err = "none" /\ dispatched = <<>> /\ si = 0 /\ selection = 0
    /\ lastParagraph = 0 /\ itemNumber = 1 /\ startIndex = 0
    /\ tableData = <<>> /\ headerRow = <<>> /\ depth = 0 /\ children = <<>>
    /\ ci = 0 /\ isBold = FALSE /\ isItalic = FALSE /\ linkHref = ""
    /\ pendingText = "" /\ paragraph = 0

\* initializeAuthState: the pane opens on what localStorage holds
StoredTokens == {Null, "token"}
StoredEmails == {Null, "user@example.com"}

AppInit ==
    /\ NoRender
    /\ localStorage \in [token : StoredTokens, email : StoredEmails]
    /\ authToken = localStorage.token
    /\ userEmail = localStorage.email
    /\ view = IF authToken # Null /\ userEmail # Null THEN "loggedIn" ELSE "loggedOut"
    /\ status = Status("", "none")
    /\ promptInput = ""
    /\ sourcesShown = FALSE
    /\ calls = [c \in Calls |-> NoCall]
    /\ running = 0
    /\ overlapWaits = 0

\* the data-prompt attributes of the example cards
CardPrompts == {"", " ", "p"}

\* the click handler of an example card
ExampleCardClick ==
    /\ Yielded
    /\ \E prompt \in CardPrompts :
         promptInput' = IF prompt # "" THEN prompt ELSE promptInput
    /\ promptInput' # promptInput
    /\ UNCHANGED <<vars, sessionVars, status, sourcesShown, calls, running, overlapWaits>>

\* logout(), without its showStatus
EndSession ==
    /\ authToken' = Null
    /\ userEmail' = Null
    /\ localStorage' = [token |-> Null, email |-> Null]
    /\ view' = "loggedOut"

\* the click on the logout button, which the logged-in view shows
logout ==
    /\ Yielded
    /\ view = "loggedIn"
    /\ EndSession
    /\ status' = Status("Logged out successfully", "success")
    /\ UNCHANGED <<vars, promptInput, sourcesShown, calls, running, overlapWaits>>

\* a catch that goes on as the try block would have
CatchShowsSuccess(c, rec, message) ==
    /\ calls' = [calls EXCEPT ![c] = [rec EXCEPT !.pc = "ended", !.attempts = 0,
                                                 !.error = message]]
    /\ sourcesShown' = (rec.sources # "")
    /\ status' = Status("Text generated and inserted successfully!", "success")
    /\ promptInput' = ""
    /\ UNCHANGED sessionVars

\* the catch of generateAndInsertText on an error with this message; rec is
\* the call as the error leaves it, the locals of pollTaskStatus are gone
Catch(c, rec, message) ==
    /\ calls' = [calls EXCEPT ![c] = [rec EXCEPT !.pc = "ended", !.attempts = 0,
                                                 !.error = message]]
    /\ IF Includes(message, "401")
       THEN /\ EndSession
            /\ status' = Status("Session expired. Please log in again", "error")
       ELSE /\ status' = Status("Error: " \o message, "error")
            /\ UNCHANGED sessionVars
    /\ UNCHANGED <<promptInput, sourcesShown>>

\* the click on the generate button, up to the fetch of startAsyncQuery
generateAndInsertText ==
    /\ Yielded
    /\ IF authToken = Null
       THEN /\ status' = Status("Please log in first", "error")
            /\ UNCHANGED <<sourcesShown, calls>>
       ELSE IF Trim(promptInput) = ""
       THEN /\ status' = Status("Please enter a prompt", "error")
            /\ UNCHANGED <<sourcesShown, calls>>
       ELSE /\ \E c \in Calls :
                 /\ calls[c].pc = "idle"
                 /\ \A d \in Calls : d < c => calls[d].pc # "idle"
                 /\ \A d \in InFlight : calls[d].attempts <= MaxOverlapWaits
                 /\ calls' = [calls EXCEPT ![c].pc = "start"]
            /\ status' = Status("Starting AI text generation...", "loading")
            /\ sourcesShown' = FALSE
    /\ UNCHANGED <<vars, sessionVars, promptInput, running, overlapWaits>>

\* the fetch of startAsyncQuery settles
StartResponse(c) ==
    /\ Yielded
    /\ calls[c].pc = "start"
    /\ \E r \in StartResponses :
         LET rec == [calls[c] EXCEPT !.unauthorized = @ \/ r.status = 401]
         IN  IF StartError(r) # ""
             THEN Catch(c, rec, StartError(r))
             ELSE /\ calls' = [calls EXCEPT ![c] = [rec EXCEPT !.pc = "poll"]]
                  /\ UNCHANGED <<sessionVars, paneVars>>
    /\ UNCHANGED <<vars, running, overlapWaits>>

\* a task may wait for its next poll: always when it is alone, a bounded
\* number of times while another generation is in flight
MayWait(c) == InFlight = {c} \/ overlapWaits < MaxOverlapWaits

\* the server has the long text for a task that is alone and was polled
\* a bounded number of times
MayBeRich(c) == InFlight = {c} /\ calls[c].attempts <= MaxRichPolls

Waited(c) ==
    overlapWaits' = IF InFlight = {c} THEN overlapWaits ELSE overlapWaits + 1

\* the fetch of pollTaskStatus settles: the task is returned, an error is
\* re-thrown, or the loop goes to setTimeout
StatusResponse(c) ==
    /\ Yielded
    /\ calls[c].pc = "poll"
    /\ \E r \in StatusResponses :
         LET message == PollError(r)
             failed == Ok(r) /\ r.body.status = "failure"
             rec == [calls[c] EXCEPT !.unauthorized = @ \/ r.status = 401,
                                     !.failure = @ \/ failed]
             text == Trim(r.body.text)
         IN  CASE message # "" /\ Rethrown(message) ->
                    /\ Catch(c, rec, message)
                    /\ UNCHANGED <<vars, running, overlapWaits>>
               [] message # "" /\ ~Rethrown(message) ->
                    /\ MayWait(c)
                    /\ Waited(c)
                    /\ calls' = [calls EXCEPT ![c] = [rec EXCEPT !.pc = "wait"]]
                    /\ UNCHANGED <<vars, sessionVars, paneVars, running>>
               [] message = "" /\ r.body.status = "success" ->
                    /\ text = RichText => MayBeRich(c)
                    /\ calls' = [calls EXCEPT ![c] =
                                   [rec EXCEPT !.pc = "render", !.attempts = 0,
                                               !.text = text, !.walk = "walking",
                                               !.sources = r.body.sources]]
                    /\ running' = c
                    /\ RenderStart(Parse(text))
                    /\ UNCHANGED <<sessionVars, paneVars, overlapWaits>>
               [] OTHER ->
                    /\ MayWait(c)
                    /\ Waited(c)
                    /\ calls' = [calls EXCEPT ![c] = [rec EXCEPT !.pc = "wait"]]
                    /\ status' = IF r.body.status \in {"pending", "started"}
                                    /\ r.body.progress # ""
                                 THEN Status(r.body.progress, "loading")
                                 ELSE status
                    /\ UNCHANGED <<vars, sessionVars, promptInput, sourcesShown, running>>

\* the timer of setTimeout fires: attempts++ and the test of the while loop
TimerFires(c) ==
    /\ Yielded
    /\ calls[c].pc = "wait"
    /\ IF calls[c].attempts + 1 < maxAttempts
       THEN /\ calls' = [calls EXCEPT ![c].pc = "poll", ![c].attempts = @ + 1]
            /\ UNCHANGED <<sessionVars, paneVars>>
       ELSE Catch(c, calls[c], "Query processing timeout. Please try again.")
    /\ UNCHANGED <<vars, running, overlapWaits>>

\* a mutation primitive of the host throws during the walk
HostThrows(c) ==
    /\ running = c
    /\ pc \notin {"idle", "done", "failed"}
    /\ Catch(c, [calls[c] EXCEPT !.walk = "threw"], ThrownMessage("HostError"))
    /\ running' = 0
    /\ RenderEnd
    /\ UNCHANGED overlapWaits

\* a commit issued before the walk has returned
CommitIssuedEarly(c) ==
    /\ running = c
    /\ pc \notin {"idle", "failed"}
    /\ calls' = [calls EXCEPT ![c].syncs = @ + 1]
    /\ UNCHANGED <<vars, sessionVars, paneVars, running, overlapWaits>>

\* processMarkdownTokens has returned: await context.sync()
CommitIssued(c) ==
    /\ running = c
    /\ pc = "done"
    /\ calls' = [calls EXCEPT ![c].pc = "sync", ![c].walk = "returned",
                              ![c].syncs = @ + 1]
    /\ running' = 0
    /\ RenderEnd
    /\ UNCHANGED <<sessionVars, paneVars, overlapWaits>>

\* displaySources(sources)
displaySources(sources) == sources # ""

\* context.sync() settles: the rest of the try block, or the catch
SyncResponse(c) ==
    /\ Yielded
    /\ calls[c].pc = "sync"
    /\ \/ /\ calls' = [calls EXCEPT ![c].pc = "ended"]
          /\ sourcesShown' = displaySources(calls[c].sources)
          /\ status' = Status("Text generated and inserted successfully!", "success")
          /\ promptInput' = ""
          /\ UNCHANGED sessionVars
       \/ Catch(c, calls[c], ThrownMessage("HostError"))
    /\ UNCHANGED <<vars, running, overlapWaits>>

\* generateAndInsertText returns: the call and what it held are gone
Returns(c) ==
    /\ calls[c].pc = "ended"
    /\ calls' = [calls EXCEPT ![c] = NoCall]
    /\ overlapWaits' = 0
    /\ UNCHANGED <<vars, sessionVars, paneVars, running>>

AppNext ==
    \/ Next
    \/ ExampleCardClick
    \/ logout
    \/ generateAndInsertText
    \/ \E c \in Calls : StartResponse(c)
    \/ \E c \in Calls : StatusResponse(c)
    \/ \E c \in Calls : TimerFires(c)
    \/ \E c \in Calls : HostThrows(c)
    \/ \E c \in Calls : CommitIssued(c)
    \/ \E c \in Calls : SyncResponse(c)
    \/ \E c \in Calls : Returns(c)

AppSpec == AppInit /\ [][AppNext]_allVars

\* pollTaskStatus alone: one task, from the entry of the loop to its exit,
\* with every fetch settling and every timer firing in the end
PollInit ==
    /\ NoRender
    /\ localStorage = [token |-> "token", email |-> "user@example.com"]
    /\ authToken = "token"
    /\ userEmail = "user@example.com"
    /\ view = "loggedIn"
    /\ status = Status("Starting AI text generation...", "loading")
    /\ promptInput = "p"
    /\ sourcesShown = FALSE
    /\ calls = [c \in Calls |-> IF c = 1 THEN [NoCall EXCEPT !.pc = "poll"]
                                          ELSE NoCall]
    /\ running = 0
    /\ overlapWaits = 0

PollNext == StatusResponse(1) \/ TimerFires(1)

PollFairSpec ==
    PollInit /\ [][PollNext]_allVars
        /\ WF_allVars(StatusResponse(1)) /\ WF_allVars(TimerFires(1))

(***************************************************************************)
(* Vocabulary of the properties.                                           *)
(***************************************************************************)
Positions == 1..Len(doc)

\* the render is over and nothing was thrown
Rendered == pc = "done"

\* the elements the block dispatched at token index o put into the document,
\* in document order
ElementsOf(o) == SelectSeq(doc, LAMBDA e : e.blk = o)

\* insertTable has just returned to the dispatcher
TableReturned ==
    /\ pc = "skip"
    /\ At(tokens, startIndex).type = "table_open"
    /\ i = startIndex + 1
    /\ depth = 1

(***************************************************************************)
(* C1. After processMarkdownTokens finishes, the inserted elements stand   *)
(* in the document in the order of their originating blocks in the token   *)
(* array: no element of a later block stands before an element of an       *)
(* earlier block, also when a table is followed by further blocks.         *)
(***************************************************************************)
C1_SourceOrder ==
    Rendered =>
        \A p, q \in Positions : p < q => doc[p].blk <= doc[q].blk

\* the same for documents without a materialized table, where it holds
C1_SourceOrderWithoutTable ==
    (Rendered /\ \A p \in Positions : doc[p].kind # "table") =>
        \A p, q \in Positions : p < q => doc[p].blk <= doc[q].blk

(***************************************************************************)
(* C2. When insertTable has collected at least one row, the document holds *)
(* directly behind the input cursor a blank spacer paragraph, the table    *)
(* and a second blank spacer paragraph, in this order, and the returned    *)
(* cursor is anchored to the trailing spacer, behind the table.            *)
(***************************************************************************)
C2_SpacerTableSpacer ==
    (TableReturned /\ Len(tableData) > 0) =>
        LET p == PosOf(doc, selection)
        IN  /\ Len(doc) >= p + 3
            /\ doc[p + 1].kind = "paragraph" /\ doc[p + 1].text = ""
            /\ doc[p + 2].kind = "table"
            /\ doc[p + 3].kind = "paragraph" /\ doc[p + 3].text = ""
            /\ currentRange = doc[p + 3].id

\* what the source does instead: both spacers stand before the table and the
\* returned cursor is anchored to the first element, in front of the table
C2_TableBehindReturnedCursor ==
    (TableReturned /\ Len(tableData) > 0) =>
        LET p == PosOf(doc, selection)
        IN  /\ doc[p + 1].style = "spaceAfter"
            /\ doc[p + 2].style = "spaceBefore"
            /\ doc[p + 3].kind = "table"
            /\ currentRange = doc[p + 1].id

(***************************************************************************)
(* C3. The concatenation of the texts of the runs insertFormattedParagraph *)
(* emits, in emission order, equals the concatenation of the contents of   *)
(* the children in child order: no character is dropped, duplicated or     *)
(* reordered.  It is checked for every children list, balanced or not, and *)
(* at every step of the loop with the pending buffer counted in.           *)
(***************************************************************************)
RECURSIVE ContentOf(_)
ContentOf(ch) ==
    IF Len(ch) = 0 THEN "" ELSE Head(ch).content \o ContentOf(Tail(ch))

RECURSIVE TextOf(_)
TextOf(runs) ==
    IF Len(runs) = 0 THEN "" ELSE Head(runs).text \o TextOf(Tail(runs))

\* the runs of the paragraph the formatter works on, or worked on last
Runs == doc[PosOf(doc, paragraph)].runs

C3_RunsCarryAllText ==
    /\ pc = "inline" =>
          TextOf(Runs) \o pendingText = ContentOf(SubSeq(children, 1, ci))
    /\ (pc # "inline" /\ paragraph # 0) => TextOf(Runs) = ContentOf(children)

\* a balanced list with all styles rendered: a **b** *c* `d` [e](u) f
C3_Witness ==
    /\ Rendered
    /\ children = ExampleChildren
    /\ Len(Runs) = 6
    /\ TextOf(Runs) = "abcdef"

(***************************************************************************)
(* C4. After a bullet-list-open, ordered-list-open, blockquote-open or     *)
(* table-open token at index o the dispatcher next handles the token       *)
(* behind the close that matches o under same-kind depth counting (or      *)
(* nothing, when there is no such close), and it handles no token strictly *)
(* inside the container.                                                   *)
(***************************************************************************)
ContainerOpens ==
    {"bullet_list_open", "ordered_list_open", "blockquote_open", "table_open"}

CountType(a, b, type) == Cardinality({x \in a..b : At(tokens, x).type = type})

\* the depth counting of the claim, from depth d in front of index j: the
\* index of the close that brings the depth to 0, Len(tokens) when none does
RECURSIVE MatchFrom(_, _, _)
MatchFrom(o, j, d) ==
    IF j >= Len(tokens) THEN Len(tokens)
    ELSE LET d2 == d + (IF At(tokens, j).type = At(tokens, o).type THEN 1 ELSE 0)
                     - (IF At(tokens, j).type = CloseOf(At(tokens, o).type) THEN 1 ELSE 0)
         IN  IF d2 = 0 THEN j ELSE MatchFrom(o, j + 1, d2)

Match(o) == MatchFrom(o, o + 1, 1)

HasMatch(o) == Match(o) < Len(tokens)

ResumeIndex(o) == IF HasMatch(o) THEN Match(o) + 1 ELSE Len(tokens)

C4_ResumeBehindMatchingClose ==
    pc \in {"dispatch", "done", "failed"} =>
        \A k \in 1..Len(dispatched) :
            At(tokens, dispatched[k]).type \in ContainerOpens =>
                LET resume == ResumeIndex(dispatched[k])
                IN  /\ k < Len(dispatched) => dispatched[k + 1] = resume
                    /\ k = Len(dispatched) => i = resume
                    /\ \A m \in 1..Len(dispatched) :
                           ~(dispatched[k] < dispatched[m] /\ dispatched[m] < resume)

\* a bullet list nested three deep, with a block behind the outer close
C4_Witness ==
    /\ Rendered
    /\ \E k \in 1..(Len(dispatched) - 1) :
          /\ At(tokens, dispatched[k]).type = "bullet_list_open"
          /\ HasMatch(dispatched[k])
          /\ CountType(dispatched[k] + 1, Match(dispatched[k]), "bullet_list_open") >= 2
          /\ dispatched[k + 1] = Match(dispatched[k]) + 1

(***************************************************************************)
(* C5. A bulleted list of n items that each hold non-empty inline content  *)
(* (list_item_open, paragraph_open, inline, paragraph_close,               *)
(* list_item_close, n times between the open and the close) renders        *)
(* exactly n paragraphs, in item order, the k-th with the text made of the *)
(* bullet prefix and the k-th item's content, and nothing else.            *)
(***************************************************************************)
FlatItemAt(x) ==
    /\ At(tokens, x).type = "list_item_open"
    /\ At(tokens, x + 1).type = "paragraph_open"
    /\ At(tokens, x + 2).type = "inline" /\ At(tokens, x + 2).content # ""
    /\ At(tokens, x + 3).type = "paragraph_close"
    /\ At(tokens, x + 4).type = "list_item_close"

FlatListAt(o, n) ==
    /\ \A k \in 0..(n - 1) : FlatItemAt(o + 1 + 5 * k)
    /\ At(tokens, o + 1 + 5 * n).type = CloseOf(At(tokens, o).type)

DispatchedAt(type) ==
    {dispatched[k] : k \in 1..Len(dispatched)} \cap
        {o \in 0..(Len(tokens) - 1) : At(tokens, o).type = type}

C5_BulletParagraphs ==
    Rendered =>
        \A o \in DispatchedAt("bullet_list_open") :
            \A n \in 0..Len(tokens) :
                FlatListAt(o, n) =>
                    LET els == ElementsOf(o)
                    IN  /\ Len(els) = n
                        /\ \A k \in 1..n :
                              /\ els[k].kind = "paragraph"
                              /\ els[k].text =
                                     BulletPrefix \o At(tokens, o + 5 * k - 2).content
                              /\ k > 1 => els[k - 1].id < els[k].id

\* the list a, b, c
C5_Witness ==
    /\ Rendered
    /\ tokens = ExampleList("bullet")
    /\ Len(doc) = 3
    /\ doc[1].text = "* a" /\ doc[2].text = "* b" /\ doc[3].text = "* c"

(***************************************************************************)
(* C6. The k-th paragraph insertOrderedList emits for a list-open the      *)
(* dispatcher renders carries the prefix "k. " in front of its item's      *)
(* content: the counter starts at 1 for each such list, grows by 1 per     *)
(* emitted item, does not read the item markers (info), and an item        *)
(* skipped for lack of content takes no number.                            *)
(***************************************************************************)
C6_OrderedCounter ==
    pc \in {"ordered", "skip", "done"} =>
        \A o \in DispatchedAt("ordered_list_open") :
            LET els == ElementsOf(o)
            IN  /\ \A k \in 1..Len(els) :
                      /\ els[k].text =
                             ToString(k) \o ". " \o At(tokens, els[k].tok).content
                      /\ k > 1 => els[k - 1].id < els[k].id
                /\ (pc = "ordered" /\ startIndex = o) => itemNumber = Len(els) + 1

\* markers 3, 5, 7; the first item has no content and takes no number
C6_Witness ==
    /\ Rendered
    /\ Len(tokens) > 12
    /\ At(tokens, 0).type = "ordered_list_open"
    /\ At(tokens, 1).info = "3" /\ At(tokens, 3).content = ""
    /\ At(tokens, 6).info = "5" /\ At(tokens, 8).content = "a"
    /\ At(tokens, 11).info = "7" /\ At(tokens, 13).content = "b"
    /\ Len(doc) = 2
    /\ doc[1].text = "1. a" /\ doc[2].text = "2. b"

(***************************************************************************)
(* C7. For a table whose header section holds one row of c >= 1 cells and  *)
(* whose body holds b rows of at least one cell each, insertTable creates  *)
(* a table of 1 + b rows and c columns; a cell holds the string collected  *)
(* for it (the empty string where the row has no such cell); the cells of  *)
(* row 0 are bold and centered and all other cells are plain.              *)
(***************************************************************************)
\* the tokens of the container opened at o, from its open to its close
ContainerAt(o) == SubSeq(tokens, o + 1, ResumeIndex(o))

\* the indices of the tr_open tokens of the table at o
RowStarts(o) ==
    SelectSeq([k \in 1..(Match(o) - o) |-> o + k],
              LAMBDA x : At(tokens, x).type = "tr_open")

\* the number of cell contents (inline tokens) of the row that starts at x
RECURSIVE CellsFrom(_)
CellsFrom(x) ==
    IF x >= Len(tokens) \/ At(tokens, x).type = "tr_close" THEN 0
    ELSE (IF At(tokens, x).type = "inline" THEN 1 ELSE 0) + CellsFrom(x + 1)

\* the table at o read as one header row and body rows, by its cell counts
ShapeOf(rows) ==
    [thead |-> TRUE, header |-> <<CellsFrom(rows[1])>>,
     tbody |-> TRUE,
     body |-> [r \in 1..(Len(rows) - 1) |-> CellsFrom(rows[r + 1])]]

ShapeAt(o) == ShapeOf(RowStarts(o))

\* one header row of c >= 1 cells, body rows of at least one cell each
IsHeaderAndBodyTable(o) ==
    /\ HasMatch(o)
    /\ At(tokens, o + 1).type = "thead_open"
    /\ At(tokens, o + 2).type = "tr_open"
    /\ LET t == ShapeAt(o)
       IN  /\ t.header[1] >= 1
           /\ \A r \in 1..Len(t.body) : t.body[r] >= 1
           /\ ContainerAt(o) = TableTokens(t)

TablesOf(o) == SelectSeq(doc, LAMBDA e : e.blk = o /\ e.kind = "table")

C7_TableShapeAndHeader ==
    Rendered =>
        \A o \in DispatchedAt("table_open") :
            IsHeaderAndBodyTable(o) =>
                /\ Len(TablesOf(o)) = 1
                /\ LET cells == TablesOf(o)[1].cells
                       t == ShapeAt(o)
                   IN  /\ Len(cells) = 1 + Len(t.body)
                       /\ \A r \in 1..Len(cells) : Len(cells[r]) = t.header[1]
                       /\ \A c \in 1..t.header[1] :
                             cells[1][c] =
                                 Cell(CellText("H", 1, c), TRUE, HeaderColor, "centered")
                       /\ \A r \in 1..Len(t.body) : \A c \in 1..t.header[1] :
                             cells[r + 1][c] =
                                 Cell(IF c <= t.body[r] THEN CellText("D", r, c) ELSE "",
                                      FALSE, "", "")

\* the table Name/Age, Al/30, Bo/40 of the test list: 3 rows, 2 columns
C7_Witness ==
    /\ Rendered
    /\ tokens = ExampleTable
    /\ Len(TablesOf(0)) = 1
    /\ Len(TablesOf(0)[1].cells) = 3
    /\ Len(TablesOf(0)[1].cells[1]) = 2
    /\ TablesOf(0)[1].cells[1][1].value = "H11" /\ TablesOf(0)[1].cells[1][1].bold
    /\ TablesOf(0)[1].cells[2][1].value = "D11" /\ ~TablesOf(0)[1].cells[2][1].bold

(***************************************************************************)
(* C8. When the scan of insertTable yields no row with at least one cell,  *)
(* the call is a no-op: it inserts neither table nor spacer paragraph and  *)
(* returns the cursor it was given.                                        *)
(***************************************************************************)
C8_EmptyTableNoOp ==
    (TableReturned /\ \A r \in 1..Len(tableData) : Len(tableData[r]) = 0) =>
        /\ currentRange = selection
        /\ Len(ElementsOf(startIndex)) = 0
        /\ \A p \in Positions : doc[p].blk < startIndex

\* a table with rows but no cells, behind a block that moved the cursor
C8_Witness ==
    /\ TableReturned
    /\ tableData = <<>>
    /\ \E x \in 0..(Len(tokens) - 1) : At(tokens, x).type = "tr_open"
    /\ selection # 0
    /\ currentRange = selection

(***************************************************************************)
(* C9. A malformed token stream (unmatched open or close tokens, an open   *)
(* token with no content token behind it, empty containers, a container    *)
(* open as last token) never raises: every loop of the render always has   *)
(* its next step up to the return, and the only exception that can leave   *)
(* processMarkdownTokens is insertHeading reading the tag of a heading     *)
(* token that has none although its content token is there.                *)
(***************************************************************************)
C9_MalformedStreamNeverRaises ==
    /\ pc \notin {"done", "failed"} => ENABLED Next
    /\ (pc = "failed" \/ err # "none") =>
          /\ At(tokens, i).type = "heading_open"
          /\ At(tokens, i).tag = NoTag
          /\ At(tokens, i + 1) # Undefined
          /\ At(tokens, i + 1).content # ""

\* an unmatched close, an open without content and a container open last
C9_Witness ==
    /\ Rendered
    /\ err = "none"
    /\ Len(tokens) = 3
    /\ At(tokens, 0).type = "blockquote_close"
    /\ At(tokens, 1).type = "paragraph_open"
    /\ At(tokens, 2).type = "ordered_list_open"

(***************************************************************************)
(* C10. A strong-close, em-close or link-close without a preceding open    *)
(* does not stop insertFormattedParagraph: the loop always has its next    *)
(* step.  After any close the style field is at its default, and with no   *)
(* open before it no run carries the style.                                *)
(***************************************************************************)
HasChild(n, type) == \E m \in 1..n : children[m].type = type

C10_UnmatchedCloseIsDefault ==
    /\ pc = "inline" => ENABLED (InlineStep \/ InlineReturn)
    /\ (ci > 0 /\ children[ci].type = "strong_close") => ~isBold
    /\ (ci > 0 /\ children[ci].type = "em_close") => ~isItalic
    /\ (ci > 0 /\ children[ci].type = "link_close") => linkHref = ""
    /\ paragraph # 0 =>
          \A r \in 1..Len(Runs) :
              /\ ~HasChild(ci, "strong_open") => ~Runs[r].bold
              /\ ~HasChild(ci, "em_open") => ~Runs[r].italic
              /\ ~HasChild(ci, "link_open") => ~Runs[r].underline

\* closes of all three kinds without opens, and text behind them
C10_Witness ==
    /\ pc = "inline"
    /\ children = ExampleUnmatched
    /\ ci = 9
    /\ Len(Runs) = 4
    /\ ~isBold /\ ~isItalic /\ linkHref = ""

(***************************************************************************)
(* C11. On every token array the dispatcher index grows strictly from one  *)
(* iteration to the next and every scan index grows strictly per step, so  *)
(* processMarkdownTokens runs on to the exit of its loop, where every      *)
(* token, and so every block-open token, lies behind the dispatcher index. *)
(* The state part: the indices the switch handled grow strictly, the       *)
(* render has a step that changes the state until it returns, and at the   *)
(* return the index is behind the whole array.                             *)
(***************************************************************************)
BlockOpens ==
    {"heading_open", "paragraph_open", "bullet_list_open", "ordered_list_open",
     "blockquote_open", "table_open"}

ScanLoops ==
    {"bullet", "ordered", "quote", "table", "thead", "thead_tr", "tbody", "tbody_tr"}

DispatcherAdvances ==
    /\ \A k \in 1..(Len(dispatched) - 1) : dispatched[k] < dispatched[k + 1]
    /\ (pc \in {"dispatch", "done"} /\ Len(dispatched) > 0) =>
           i > dispatched[Len(dispatched)]

C11_EveryBlockOpenPassed ==
    /\ DispatcherAdvances
    /\ pc # "done" => ENABLED <<Next>>_vars
    /\ pc = "done" =>
          \A o \in 0..(Len(tokens) - 1) : At(tokens, o).type \in BlockOpens => o < i

\* the progress part, which holds: no index ever moves back, a step that
\* stays in a loop moves the loop's index forward, and the only steps that
\* keep an index in place are the entries and exits of nested loops
C11_IndexStep ==
    /\ i' >= i
    /\ (pc = "dispatch" /\ pc' = "dispatch") => i' > i
    /\ (pc = "skip" /\ pc' = "skip") => i' > i
    /\ (pc = "inline" /\ pc' = "inline") => ci' > ci
    /\ (pc \in ScanLoops /\ pc' \in ScanLoops) =>
          \/ si' > si
          \/ si' = si /\ pc = "table" /\ pc' \in {"thead", "tbody"}
                      /\ At(tokens, si).type \in {"thead_open", "tbody_open"}
          \/ si' = si /\ pc \in {"thead", "tbody"} /\ pc' = "table"
                      /\ At(tokens, si).type \notin {"thead_open", "tbody_open"}

C11_IndicesIncrease == [][C11_IndexStep]_vars

\* the same without the heading that has no tag: the render always returns
C11_PassedUnlessTypeError ==
    /\ DispatcherAdvances
    /\ pc \notin {"done", "failed"} => ENABLED <<Next>>_vars
    /\ pc = "done" => i >= Len(tokens)
    /\ pc = "failed" => At(tokens, i).tag = NoTag

(***************************************************************************)
(* C14. A flush of an empty pending buffer emits no run: applied to any    *)
(* state of the formatter, a second flush directly behind a first changes  *)
(* nothing, so two flushes with no text between them (adjacent style       *)
(* tokens, a style token as first or last child) emit at most one run; and *)
(* no run the flush emitted has an empty text.                             *)
(***************************************************************************)
FlushTypes ==
    {"strong_open", "strong_close", "em_open", "em_close", "code_inline",
     "link_open", "link_close"}

\* the runs the flush emitted: all but the code_inline runs
IsFlushRun(r) == r.fontName = ""

FlushRuns == SelectSeq(Runs, IsFlushRun)

\* the children among the first n that put text into the buffer
Buffered(n) ==
    {m \in 1..n : children[m].type \notin FlushTypes /\ children[m].content # ""}

\* the blocks of buffered children among the first n: a block starts at a
\* buffered child with a flushing child between it and every buffered child
\* before it
BlockStarts(n) ==
    {m \in Buffered(n) :
        \A k \in Buffered(n) :
            k < m => \E f \in (k + 1)..(m - 1) : children[f].type \in FlushTypes}

C14_EmptyFlushEmitsNothing ==
    paragraph # 0 =>
        LET once == applyPendingText(doc, paragraph, pendingText,
                                     isBold, isItalic, linkHref)
            twice == applyPendingText(once.doc, paragraph, once.pendingText,
                                      isBold, isItalic, linkHref)
            empty == applyPendingText(doc, paragraph, "", isBold, isItalic, linkHref)
        IN  /\ twice = once
            /\ empty.doc = doc
            /\ \A r \in 1..Len(FlushRuns) : FlushRuns[r].text # ""
            /\ Len(FlushRuns) <= Cardinality(BlockStarts(ci))
            /\ (pc = "inline" /\ pendingText = "") =>
                   Len(FlushRuns) = Cardinality(BlockStarts(ci))

\* text, then two style tokens side by side: one run, not two or three
C14_Witness ==
    /\ pc = "inline"
    /\ ci = 3
    /\ children[1] = Child("text", "a")
    /\ children[2].type = "strong_open"
    /\ children[3].type = "em_open"
    /\ Len(Runs) = 1
    /\ pendingText = ""

(***************************************************************************)
(* C16. Whenever a renderer has returned to the dispatcher, the            *)
(* dispatcher's cursor is anchored to the last element of the inserted     *)
(* content: no element inserted during the render stands behind the        *)
(* cursor.  (The document only grows, so a cursor that is always at its    *)
(* end never moves back.)                                                  *)
(***************************************************************************)
\* the dispatcher holds the result of the last renderer call
AtDispatcher == pc \in {"dispatch", "skip", "done"}

\* the position of the cursor in the inserted content, 0 for the selection
CursorPos == PosOf(doc, currentRange)

C16_CursorBehindLastInserted ==
    AtDispatcher => CursorPos = Len(doc)

\* the same as long as no table was materialized, where it holds
C16_CursorLastWithoutTable ==
    (AtDispatcher /\ \A p \in Positions : doc[p].kind # "table") =>
        CursorPos = Len(doc)

\* what the source does instead: once a table is materialized the cursor
\* stands in front of a table for the rest of the render
C16_CursorNeverBehindTable ==
    (AtDispatcher /\ \E p \in Positions : doc[p].kind = "table") =>
        \E p \in Positions : doc[p].kind = "table" /\ CursorPos < p

(***************************************************************************)
(* C17. Every run carries the style that was active while its text was     *)
(* buffered: character by character, the flushed runs and the pending      *)
(* buffer read as the text of the children read so far, each character     *)
(* bold exactly when the last strong token in front of its child is a      *)
(* strong_open, and italic exactly when the last em token in front of it   *)
(* is an em_open.  So text in front of a strong_open is not bold and text  *)
(* between a strong_open and its strong_close is.                          *)
(***************************************************************************)
\* whether the last of the tokens open/close among children 1..(k - 1) is open
OpenBefore(k, open, close) ==
    LET S == {m \in 1..(k - 1) : children[m].type \in {open, close}}
    IN  /\ S # {}
        /\ children[CHOOSE m \in S : \A n \in S : n <= m].type = open

Styled(text, bold, italic) ==
    [c \in 1..Len(text) |->
        [char |-> SubSeq(text, c, c), bold |-> bold, italic |-> italic]]

\* the styled characters the children 1..n ask for
RECURSIVE StyledOfChildren(_)
StyledOfChildren(n) ==
    IF n = 0 THEN <<>>
    ELSE StyledOfChildren(n - 1) \o
         (IF children[n].type \in FlushTypes THEN <<>>
          ELSE Styled(children[n].content,
                      OpenBefore(n, "strong_open", "strong_close"),
                      OpenBefore(n, "em_open", "em_close")))

\* the styled characters of the flushed runs
RECURSIVE StyledOfRuns(_)
StyledOfRuns(runs) ==
    IF Len(runs) = 0 THEN <<>>
    ELSE Styled(Head(runs).text, Head(runs).bold, Head(runs).italic)
             \o StyledOfRuns(Tail(runs))

C17_RunsKeepBufferedStyle ==
    paragraph # 0 =>
        StyledOfRuns(FlushRuns) \o Styled(pendingText, isBold, isItalic)
            = StyledOfChildren(ci)

\* a **b** *c* ...: a is plain, b is bold and not italic, c is italic
C17_Witness ==
    /\ Rendered
    /\ children = ExampleChildren
    /\ Runs[1].text = "a" /\ ~Runs[1].bold /\ ~Runs[1].italic
    /\ Runs[2].text = "b" /\ Runs[2].bold /\ ~Runs[2].italic
    /\ Runs[3].text = "c" /\ ~Runs[3].bold /\ Runs[3].italic

(***************************************************************************)
(* C20. For a rendered bullet or ordered list whose region, from the       *)
(* list-open to the close the dispatcher skips to, holds a nested list of  *)
(* the same kind, every list item with non-empty inline content in the     *)
(* region is emitted as exactly one paragraph of the list, the outer items *)
(* behind the nested list's close included.                                *)
(***************************************************************************)
ListOpens == {"bullet_list_open", "ordered_list_open"}

\* the rendered lists that hold a nested list of their own kind
NestedListsDispatched ==
    {o \in DispatchedAt("bullet_list_open") \cup DispatchedAt("ordered_list_open") :
        /\ HasMatch(o)
        /\ \E x \in (o + 1)..(Match(o) - 1) : At(tokens, x).type = At(tokens, o).type}

\* the content tokens of the items with non-empty inline content in the region
ItemContents(o, last) ==
    {x + 2 : x \in {y \in (o + 1)..(last - 1) :
                       IsListItem(tokens, y) /\ HasInlineContent(tokens, y + 2)}}

EmittedOnce(o, t) ==
    Len(SelectSeq(doc, LAMBDA e : e.blk = o /\ e.tok = t /\ e.kind = "paragraph")) = 1

C20_NestedListItemsAllEmitted ==
    Rendered =>
        \A o \in NestedListsDispatched :
            \A t \in ItemContents(o, Match(o)) : EmittedOnce(o, t)

\* the first close of the list's kind behind o: where the renderer stops
RECURSIVE FirstClose(_, _)
FirstClose(o, x) ==
    IF x >= Len(tokens) \/ At(tokens, x).type = CloseOf(At(tokens, o).type)
    THEN x
    ELSE FirstClose(o, x + 1)

\* what the source does instead: the items in front of the first close of
\* the list's kind are emitted, and no item behind it
C20_ItemsUpToFirstClose ==
    Rendered =>
        \A o \in NestedListsDispatched :
            /\ \A t \in ItemContents(o, FirstClose(o, o + 1)) : EmittedOnce(o, t)
            /\ \A p \in Positions :
                   doc[p].blk = o => doc[p].tok < FirstClose(o, o + 1)

(***************************************************************************)
(* The task pane: insertTextAtCursor and generateAndInsertText.            *)
(***************************************************************************)
\* C12: a render call issues context.sync once, after its token walk has
\* returned and so after its last mutation was staged: while the walk runs
\* the call has issued no commit, once the walk has returned it has issued
\* exactly one, and a call whose walk threw has issued none.
C12_OneCommitAfterTheWalk ==
    \A c \in Calls :
        /\ calls[c].syncs <= 1
        /\ calls[c].walk = "walking" <=> running = c
        /\ pc # "idle" => running \in Calls
        /\ calls[c].walk = "walking" => calls[c].syncs = 0
        /\ calls[c].walk = "returned" => calls[c].syncs = 1
        /\ calls[c].walk = "threw" => calls[c].syncs = 0 /\ calls[c].pc = "ended"
        /\ calls[c].walk = "none" => calls[c].syncs = 0
        /\ calls[c].pc = "sync" => calls[c].walk = "returned"

\* the long text was staged and its commit is issued
C12_Witness ==
    \E c \in Calls :
        calls[c].pc = "sync" /\ calls[c].syncs = 1 /\ calls[c].text = RichText

\* a render of call c fails in this step: its walk or its commit throws
RenderFails(c) ==
    /\ calls[c].pc \in {"render", "sync"}
    /\ calls'[c].pc = "ended"
    /\ calls'[c].error # ""

C13_Step ==
    \A c \in Calls :
        RenderFails(c) =>
            /\ calls'[c].error = ThrownMessage("HostError")
            /\ status' = Status("Error: " \o calls'[c].error, "error")
            /\ sourcesShown' = sourcesShown
            /\ promptInput' = promptInput
            /\ \A d \in Calls \ {c} : calls'[d] = calls[d]

\* C13: when a mutation primitive throws during the walk or the commit is
\* rejected, the error reaches the catch of generateAndInsertText as it was
\* thrown: the pane shows the error status, the sources section and the
\* prompt input are left as they were.
C13_FailedRenderReportsError == [][C13_Step]_allVars

\* the commit of a call was rejected and its prompt is still in the input
C13_Witness ==
    \E c \in Calls :
        /\ calls[c].pc = "ended"
        /\ calls[c].walk = "returned"
        /\ calls[c].error = ThrownMessage("HostError")
        /\ status.type = "error"
        /\ promptInput = "p"

\* call c stages mutations: its walk has started and has not ended
Staging(c) == calls[c].pc = "render"

\* the commit of call c is issued and has not settled
CommitPending(c) == calls[c].pc = "sync"

\* C15 as stated: while a render call stages mutations no other render call
\* is under way, neither staging nor waiting for its commit to settle.
C15_RenderCallsDoNotOverlap ==
    \A c, d \in Calls :
        c # d /\ Staging(d) => ~Staging(c) /\ ~CommitPending(c)

\* C15, amended: the walk of a render call and the issue of its commit are
\* one piece: while a call stages mutations no other call stages, and every
\* other call whose walk has begun has returned from it and issued its
\* commit, or has ended.
C15_CommitIssuedBeforeOtherStages ==
    \A d \in Calls :
        Staging(d) =>
            /\ running = d
            /\ \A c \in Calls \ {d} :
                   /\ ~Staging(c)
                   /\ calls[c].walk # "walking"
                   /\ calls[c].walk = "returned" => calls[c].syncs = 1

\* the second generation stages a paragraph while the commit of the first
\* has not settled
C15_Witness ==
    \E c, d \in Calls :
        /\ c # d
        /\ CommitPending(c) /\ calls[c].syncs = 1
        /\ Staging(d)
        /\ doc # <<>>

\* the messages pollTaskStatus gives the error of a task that failed
FailureMessages == {"task crashed", "Query processing failed"}

\* C18: once the server has answered status "failure" to a poll of a task,
\* the call has ended with the server's error message or with "Query
\* processing failed", so that the task is polled no more.
C18_FailureStopsPolling ==
    \A c \in Calls :
        calls[c].failure =>
            calls[c].pc = "ended" /\ calls[c].error \in FailureMessages

C18_RetryStep ==
    \A c \in Calls :
        ~calls[c].failure /\ calls'[c].failure =>
            /\ calls'[c].pc = "wait"
            /\ calls'[c].error = ""
            /\ status' = status

\* what the source does instead: the error of a failed task is caught by the
\* loop that threw it, and the loop waits a second for its next poll; the
\* pane shows nothing of it.
C18_FailureIsRetried == [][C18_RetryStep]_allVars

\* a task that failed is polled again, and this poll has the text
C18_InsertedAfterFailure ==
    \E c \in Calls : calls[c].failure /\ calls[c].pc = "sync"

\* a task that failed ends with the timeout of the loop
C18_TimeoutAfterFailure ==
    \E c \in Calls :
        /\ calls[c].failure /\ calls[c].pc = "ended"
        /\ calls[c].error = "Query processing timeout. Please try again."

\* authToken and userEmail are null, the stored items are removed and the
\* pane shows the logged-out view
LoggedOut ==
    /\ authToken = Null
    /\ userEmail = Null
    /\ localStorage = [token |-> Null, email |-> Null]
    /\ view = "loggedOut"

\* C19: when the start or the status endpoint has answered HTTP 401 and
\* generateAndInsertText has handled it, the session is ended.
C19_UnauthorizedEndsSession ==
    \A c \in Calls :
        calls[c].pc = "ended" /\ calls[c].unauthorized => LoggedOut

C19_UnauthorizedStep ==
    \A c \in Calls :
        ~calls[c].unauthorized /\ calls'[c].unauthorized =>
            /\ calls'[c].pc = "ended"
            /\ calls'[c].error = "Authentication failed. Please log in again."
            /\ status' = Status("Error: " \o calls'[c].error, "error")
            /\ UNCHANGED sessionVars

\* what the source does instead: the error thrown on HTTP 401 has no "401"
\* in its message, so the catch of generateAndInsertText shows it as any
\* other error and leaves the session as it is.
C19_UnauthorizedKeepsSession == [][C19_UnauthorizedStep]_allVars

\* the catch ends the session exactly when the message holds "401"
C19_SessionEndsOnMessage ==
    \A c \in Calls :
        calls[c].pc = "ended" /\ Includes(calls[c].error, "401") =>
            LoggedOut /\ status = Status("Session expired. Please log in again", "error")

\* a call that ended by the message of a 403 response
C19_SessionEndedOn403 ==
    \E c \in Calls :
        calls[c].pc = "ended" /\ calls[c].error = "Token rejected (401)" /\ LoggedOut

(***************************************************************************)
(* C21. A sub-renderer (list, blockquote, table) reads only the tokens     *)
(* between its open and the close at which the dispatcher resumes, also on *)
(* a malformed sequence: its loop index never stands on a token behind     *)
(* that close, and no token's content is emitted more than once.           *)
(***************************************************************************)
\* the loop of the renderer called for the open at startIndex is about to
\* read tokens[si]
ScanReads == pc \in ScanLoops /\ si < Len(tokens)

\* the paragraphs and text lines made from the content of token k
EmittedFrom(k) == SelectSeq(doc, LAMBDA e : e.tok = k)

\* the cells of all tables of the document that hold the text v
CellsWith(v) ==
    {<<p, r, c>> \in Positions \X (1..Len(tokens)) \X (1..Len(tokens)) :
        /\ doc[p].kind = "table"
        /\ r <= Len(doc[p].cells)
        /\ c <= Len(doc[p].cells[r])
        /\ doc[p].cells[r][c].value = v}

TokensWith(v) == {k \in 0..(Len(tokens) - 1) : At(tokens, k).content = v}

\* no token gives more than one paragraph, and the cells that hold one text
\* are not more than the tokens that hold it
NothingEmittedTwice ==
    /\ \A k \in 0..(Len(tokens) - 1) : Len(EmittedFrom(k)) <= 1
    /\ \A k \in 0..(Len(tokens) - 1) :
          At(tokens, k).content # "" =>
              Cardinality(CellsWith(At(tokens, k).content))
                  <= Cardinality(TokensWith(At(tokens, k).content))

C21_RendererStaysInsideContainer ==
    /\ ScanReads => si <= Match(startIndex)
    /\ NothingEmittedTwice

\* what holds: a scan leaves its container only where a list loop's step of
\* three jumps the close (an item cut off behind its paragraph_open), or
\* where a table section has no close of its own before the table's or a row
\* none before its section's,
\* and without such a container nothing is emitted twice
ClosedInside(o, open, close, ends) ==
    \A x \in (o + 1)..Match(o) :
        At(tokens, x).type = open =>
            \E y \in (x + 1)..Match(o) :
                /\ At(tokens, y).type = close
                /\ \A z \in (x + 1)..(y - 1) : At(tokens, z).type \notin ends

LeavesContainer(o) ==
    /\ HasMatch(o)
    /\ \/ /\ At(tokens, o).type \in {"bullet_list_open", "ordered_list_open"}
          /\ At(tokens, Match(o) - 2).type = "list_item_open"
          /\ At(tokens, Match(o) - 1).type = "paragraph_open"
       \/ /\ At(tokens, o).type = "table_open"
          /\ \/ ~ClosedInside(o, "thead_open", "thead_close", {})
             \/ ~ClosedInside(o, "tbody_open", "tbody_close", {})
             \/ ~ClosedInside(o, "tr_open", "tr_close",
                              {"thead_close", "tbody_close"})

C21_InsideUnlessCloseJumpedOrMissing ==
    /\ (ScanReads /\ si > Match(startIndex)) => LeavesContainer(startIndex)
    /\ (\A k \in 1..Len(dispatched) : ~LeavesContainer(dispatched[k]))
          => NothingEmittedTwice

(***************************************************************************)
(* C22. When the header section of a table holds more than one row with    *)
(* cells, only the first of them is honoured: the table created has        *)
(* exactly 1 + (number of body rows with cells) rows.                      *)
(***************************************************************************)
\* the token at x stands inside a section of the table at o
InSection(o, x, open, close) ==
    \E s \in (o + 1)..(x - 1) :
        /\ At(tokens, s).type = open
        /\ \A z \in (s + 1)..(x - 1) : At(tokens, z).type # close

\* the number of cells (cellOpen followed by an inline token) of the row
\* whose tokens start at x
RECURSIVE RowCells(_, _)
RowCells(x, cellOpen) ==
    IF x >= Len(tokens) \/ At(tokens, x).type = "tr_close" THEN 0
    ELSE (IF At(tokens, x).type = cellOpen /\ IsType(tokens, x + 1, "inline")
          THEN 1 ELSE 0) + RowCells(x + 1, cellOpen)

\* the rows with cells of the header section and of the body of the table at o
HeaderRows(o) ==
    {x \in (o + 1)..Match(o) :
        /\ At(tokens, x).type = "tr_open"
        /\ InSection(o, x, "thead_open", "thead_close")
        /\ RowCells(x + 1, "th_open") > 0}

BodyRows(o) ==
    {x \in (o + 1)..Match(o) :
        /\ At(tokens, x).type = "tr_open"
        /\ InSection(o, x, "tbody_open", "tbody_close")
        /\ RowCells(x + 1, "td_open") > 0}

\* the number of rows of the table created for the open at o, 0 when none is
RowsOfTable(o) ==
    IF Len(TablesOf(o)) = 0 THEN 0 ELSE Len(TablesOf(o)[1].cells)

\* every row of the table at o has its close before the next row starts
RowsClosed(o) ==
    /\ ~LeavesContainer(o)
    /\ ClosedInside(o, "tr_open", "tr_close", {"tr_open"})

C22_OnlyFirstHeaderRow ==
    Rendered =>
        \A o \in DispatchedAt("table_open") :
            (RowsClosed(o) /\ Cardinality(HeaderRows(o)) > 1) =>
                RowsOfTable(o) = 1 + Cardinality(BodyRows(o))

\* what holds: every header row with cells becomes a row of the table, as
\* every body row with cells does, as long as the first row collected has cells
C22_EveryHeaderRowIsARow ==
    Rendered =>
        \A o \in DispatchedAt("table_open") :
            (RowsClosed(o) /\ HasMatch(o) /\ Len(TablesOf(o)) = 1) =>
                RowsOfTable(o)
                    = Cardinality(HeaderRows(o)) + Cardinality(BodyRows(o))

(***************************************************************************)
(* C23. Every row of the table insertTable creates has as many cells as    *)
(* the first collected row: the cells a longer row has beyond that are not *)
(* written, the cells a shorter row lacks are empty, and no cell outside   *)
(* the rowCount x colCount rectangle is addressed.                         *)
(***************************************************************************)
C23_RowsHaveWidthOfRowZero ==
    (TableReturned /\ HasTableData(tableData)) =>
        /\ Len(TablesOf(startIndex)) = 1
        /\ LET cells == TablesOf(startIndex)[1].cells
           IN  /\ Len(cells) = Len(tableData)
               /\ \A r \in 1..Len(cells) :
                     /\ Len(cells[r]) = Len(tableData[1])
                     /\ \A c \in 1..Len(cells[r]) :
                           cells[r][c].value =
                               IF c <= Len(tableData[r]) THEN tableData[r][c] ELSE ""

\* a header row of MaxCols cells, a body row of one cell and one of
\* MaxCols + 1 cells: three rows of MaxCols cells each
C23_Witness ==
    /\ TableReturned
    /\ tokens = RaggedTable
    /\ Len(tableData) = 3
    /\ Len(tableData[2]) = 1 /\ Len(tableData[3]) = MaxCols + 1
    /\ LET cells == TablesOf(0)[1].cells
       IN  /\ Len(cells[2]) = MaxCols /\ Len(cells[3]) = MaxCols
           /\ cells[2][1].value = "D11" /\ cells[2][MaxCols].value = ""
           /\ cells[3][MaxCols].value = CellText("D", 2, MaxCols)

(***************************************************************************)
(* C24. Header styling (bold, header colour, centered) is given only to    *)
(* cells that come from the header section: for a table with no header     *)
(* section, or one whose header rows have no cells, no cell of a body row  *)
(* is styled as a header.                                                  *)
(***************************************************************************)
IsHeaderCell(cell) ==
    cell.bold \/ cell.color = HeaderColor \/ cell.horizontalAlignment = "centered"

\* the cells of the table created for the open at o that are styled as header
HeaderCells(o) ==
    {<<r, c>> \in (1..Len(tokens)) \X (1..Len(tokens)) :
        /\ Len(TablesOf(o)) > 0
        /\ r <= Len(TablesOf(o)[1].cells)
        /\ c <= Len(TablesOf(o)[1].cells[r])
        /\ IsHeaderCell(TablesOf(o)[1].cells[r][c])}

C24_HeaderStyleOnlyFromHeaderSection ==
    Rendered =>
        \A o \in DispatchedAt("table_open") :
            (RowsClosed(o) /\ HeaderRows(o) = {}) => HeaderCells(o) = {}

\* what holds: the styled cells of a table are the cells of its row 0,
\* whatever section that row was collected from
C24_RowZeroIsStyled ==
    Rendered =>
        \A o \in DispatchedAt("table_open") :
            Len(TablesOf(o)) > 0 =>
                HeaderCells(o) = {1} \X (1..Len(TablesOf(o)[1].cells[1]))

(***************************************************************************)
(* C25. All text between a link-open and the next link-close gets the link *)
(* styling (link colour, underline), whatever attributes the link-open     *)
(* carries; text before the link-open and after the link-close gets none.  *)
(***************************************************************************)
Linked(text, link) ==
    [c \in 1..Len(text) |-> [char |-> SubSeq(text, c, c), link |-> link]]

\* the last link token in front of child n is a link_open, and its attributes
InLink(n) == OpenBefore(n, "link_open", "link_close")

LinkAttrs(n) ==
    LET S == {m \in 1..(n - 1) : children[m].type = "link_open"}
    IN  children[CHOOSE m \in S : \A k \in S : k <= m].attrs

\* the buffered characters of the children 1..n, each with the link styling
\* asked for: inside every link, or inside the links that have a target only
RECURSIVE LinkedOfChildren(_, _)
LinkedOfChildren(n, targetOnly) ==
    IF n = 0 THEN <<>>
    ELSE LinkedOfChildren(n - 1, targetOnly) \o
         (IF children[n].type \in FlushTypes THEN <<>>
          ELSE Linked(children[n].content,
                      /\ InLink(n)
                      /\ targetOnly => HrefOf(LinkAttrs(n)) # ""))

IsLinkRun(r) == r.color = LinkColor /\ r.underline

\* the characters of the flushed runs
RECURSIVE LinkedOfRuns(_)
LinkedOfRuns(runs) ==
    IF Len(runs) = 0 THEN <<>>
    ELSE Linked(Head(runs).text, IsLinkRun(Head(runs)))
             \o LinkedOfRuns(Tail(runs))

C25_LinkTextStyledWhateverAttrs ==
    (pc # "inline" /\ paragraph # 0) =>
        LinkedOfRuns(FlushRuns) = LinkedOfChildren(Len(children), FALSE)

\* what holds: the text inside a link-open that has a non-empty href is
\* styled as a link, and no other text is
C25_LinkTextStyledWithTarget ==
    paragraph # 0 =>
        LinkedOfRuns(FlushRuns) \o Linked(pendingText, linkHref # "")
            = LinkedOfChildren(ci, TRUE)

(***************************************************************************)
(* C26. The pending text buffer of insertFormattedParagraph is empty       *)
(* directly after every flush (after each strong, em, link and code_inline *)
(* child, all of which flush first) and when the function has returned.    *)
(***************************************************************************)
C26_BufferEmptyAfterFlush ==
    /\ (pc = "inline" /\ ci > 0 /\ children[ci].type \in FlushTypes) =>
           pendingText = ""
    /\ pc # "inline" => pendingText = ""

\* a **b** ...: the strong_open has just flushed the buffered a
C26_Witness ==
    /\ pc = "inline"
    /\ children = ExampleChildren
    /\ ci = 2
    /\ Len(Runs) = 1 /\ Runs[1].text = "a"
    /\ pendingText = ""

(***************************************************************************)
(* C27. The style state of insertFormattedParagraph (bold, italic, link    *)
(* target, pending text) is at its default when the first child of an      *)
(* inline token is read, also when the inline token before it left an open *)
(* without its close.                                                      *)
(***************************************************************************)
C27_StyleStartsAtDefault ==
    (pc = "inline" /\ ci = 0) =>
        ~isBold /\ ~isItalic /\ linkHref = "" /\ pendingText = ""

\* the second paragraph starts behind one whose last run, behind an open
\* strong, is bold
C27_Witness ==
    /\ pc = "inline" /\ ci = 0
    /\ children = ExampleChildren
    /\ Len(doc) = 2
    /\ LET before == doc[1].runs
       IN  Len(before) > 0 /\ before[Len(before)].text = "g" /\ before[Len(before)].bold
    /\ ~isBold

(***************************************************************************)
(* C28. A paragraph-open whose following token is not an inline token, or  *)
(* is missing, is treated as an empty paragraph: one empty paragraph is    *)
(* inserted for it and the cursor moves behind that paragraph.             *)
(***************************************************************************)
\* the paragraph-opens the dispatcher has handled that have no inline token
\* behind them
BareParagraphOpens ==
    {o \in DispatchedAt("paragraph_open") : ~IsType(tokens, o + 1, "inline")}

C28_BareParagraphOpenIsEmptyParagraph ==
    \A o \in BareParagraphOpens :
        /\ Len(ElementsOf(o)) = 1
        /\ ElementsOf(o)[1].kind = "paragraph"
        /\ ElementsOf(o)[1].text = "" /\ ElementsOf(o)[1].runs = <<>>
        /\ (pc = "dispatch" /\ dispatched[Len(dispatched)] = o) =>
               currentRange = ElementsOf(o)[1].id

\* what holds: nothing is inserted for such a paragraph-open, and the token
\* behind it is passed over unread; the empty paragraph is what an inline
\* token without children gives
C28_BareParagraphOpenInsertsNothing ==
    \A o \in BareParagraphOpens :
        /\ ElementsOf(o) = <<>>
        /\ \A k \in 1..Len(dispatched) : dispatched[k] # o + 1
        /\ (pc = "dispatch" /\ dispatched[Len(dispatched)] = o) => i = o + 2

(***************************************************************************)
(* C29. Every token outside the list, blockquote and table regions whose   *)
(* kind is none of the dispatched kinds and whose content is not empty is  *)
(* inserted as exactly one raw text line; none is dropped or rendered as   *)
(* something else, also not directly behind a heading-open or a            *)
(* paragraph-open.                                                         *)
(***************************************************************************)
\* the tokens inside the containers the dispatcher has rendered
InsideContainers ==
    UNION {(dispatched[n] + 1)..(ResumeIndex(dispatched[n]) - 1) :
              n \in {m \in 1..Len(dispatched) :
                        At(tokens, dispatched[m]).type \in ContainerOpens}}

\* the fallback tokens: no dispatched kind, no inline token, with content
FallbackTokens ==
    {k \in 0..(Len(tokens) - 1) :
        /\ At(tokens, k).type \notin DispatchedTypes \cup {"inline"}
        /\ At(tokens, k).content # ""
        /\ k \notin InsideContainers}

IsRawLineOf(k) ==
    /\ Len(EmittedFrom(k)) = 1
    /\ EmittedFrom(k)[1].kind = "text"
    /\ EmittedFrom(k)[1].style = "raw"
    /\ EmittedFrom(k)[1].text = At(tokens, k).content \o "\n"

C29_FallbackTokenIsOneRawLine ==
    Rendered => \A k \in FallbackTokens : IsRawLineOf(k)

\* what holds: the fallback tokens that reach the dispatcher's switch give
\* one raw line each, and the ones that do not reach it stand directly
\* behind a heading-open or a paragraph-open and give no raw line
C29_RawLineUnlessBehindBlockOpen ==
    Rendered =>
        \A k \in FallbackTokens :
            IF \E n \in 1..Len(dispatched) : dispatched[n] = k
            THEN IsRawLineOf(k)
            ELSE /\ At(tokens, k - 1).type \in {"heading_open", "paragraph_open"}
                 /\ \E n \in 1..Len(dispatched) : dispatched[n] = k - 1
                 /\ \A p \in Positions : doc[p].tok = k => doc[p].kind # "text"

(***************************************************************************)
(* C30. The heading style comes from the trailing digit of the tag of the  *)
(* heading-open token: 1, 2 and 3 give the heading styles 1, 2 and 3, and  *)
(* every other case (4 to 6, a tag without digit, a digit that does not    *)
(* parse, a missing tag) gives heading style 4, without an error.          *)
(***************************************************************************)
\* the last character of the tag, none for the empty and the missing tag
TrailingChar(tag) ==
    IF tag = NoTag \/ tag = "" THEN "" ELSE SubSeq(tag, Len(tag), Len(tag))

StyleOfTag(tag) == HeadingStyle(ParseInt(TrailingChar(tag)))

\* the heading-opens handled by the dispatcher that have a content token
\* with content behind them
HeadingsWithContent ==
    {o \in DispatchedAt("heading_open") : At(tokens, o + 1).content # ""}

IsHeadingOf(o) ==
    /\ Len(ElementsOf(o)) = 1
    /\ ElementsOf(o)[1].kind = "paragraph"
    /\ ElementsOf(o)[1].text = At(tokens, o + 1).content
    /\ ElementsOf(o)[1].style = StyleOfTag(At(tokens, o).tag)

C30_HeadingStyleFromTagNoError ==
    /\ pc # "failed" /\ err = "none"
    /\ \A o \in HeadingsWithContent : IsHeadingOf(o)

\* what holds: the style follows the digit for every tag that is there, and
\* the heading whose tag is missing gives no paragraph and ends the render
\* with a TypeError
C30_StyleUnlessTagMissing ==
    \A o \in HeadingsWithContent :
        IF At(tokens, o).tag = NoTag
        THEN pc = "failed" /\ err = "TypeError" /\ ElementsOf(o) = <<>>
        ELSE IsHeadingOf(o)

(***************************************************************************)
(* C31. A heading-open at index i whose following token is missing or has  *)
(* empty content inserts nothing and leaves the cursor where it was; a     *)
(* heading with content inserts exactly one paragraph whose text is the    *)
(* content token's content, with no inline runs; and in every case the     *)
(* dispatcher consumes the tokens i and i + 1 and continues at i + 2.      *)
(***************************************************************************)
HeadingHasContent == At(tokens, i + 1).content # ""

\* the step of the dispatcher over a heading: two tokens consumed, and the
\* one paragraph or nothing
HeadingConsumed ==
    /\ pc' = "dispatch"
    /\ i' = i + 2
    /\ IF HeadingHasContent
       THEN /\ Len(doc') = Len(doc) + 1
            /\ currentRange' = NewId(doc)
            /\ doc' = InsertAfter(doc, currentRange, doc'[PosOf(doc', NewId(doc))])
            /\ LET heading == doc'[PosOf(doc', NewId(doc))]
               IN  /\ heading.kind = "paragraph"
                   /\ heading.text = At(tokens, i + 1).content
                   /\ heading.runs = <<>>
       ELSE doc' = doc /\ currentRange' = currentRange

C31_HeadingConsumesTwoTokens ==
    [][AtCase("heading_open") => HeadingConsumed]_vars

\* what holds: the same for every heading but the one with content whose
\* open has no tag, where the render stops at i with nothing inserted
C31_TwoTokensUnlessTagMissing ==
    [][AtCase("heading_open") =>
          IF HeadingHasContent /\ At(tokens, i).tag = NoTag
          THEN pc' = "failed" /\ i' = i /\ doc' = doc /\ currentRange' = currentRange
          ELSE HeadingConsumed]_vars

(***************************************************************************)
(* C32. A list item without inline content (no inline token, or one with   *)
(* empty content) emits no paragraph.  insertBulletList and                *)
(* insertOrderedList return the cursor behind the last item they emitted,  *)
(* and when the list has no item to render they insert nothing and return  *)
(* the cursor they were given.                                             *)
(***************************************************************************)
ListLoops == {"bullet", "ordered"}

\* the loop of a list renderer stands on an item whose third token is an
\* inline token with content
AtItemWithContent ==
    /\ At(tokens, si).type = "list_item_open"
    /\ At(tokens, si + 1).type = "paragraph_open"
    /\ At(tokens, si + 2).type = "inline"
    /\ At(tokens, si + 2).content # ""

\* the element a list renderer emitted last for the list at o (highest id)
LastEmitted(o) ==
    CHOOSE e \in {ElementsOf(o)[n] : n \in 1..Len(ElementsOf(o))} :
        \A n \in 1..Len(ElementsOf(o)) : ElementsOf(o)[n].id <= e.id

C32_ItemWithoutContentEmitsNothing ==
    [][/\ (pc \in ListLoops /\ pc' = pc) =>
              IF AtItemWithContent
              THEN /\ Len(doc') = Len(doc) + 1
                   /\ PosOf(doc', NewId(doc)) = PosOf(doc, selection) + 1
              ELSE doc' = doc /\ selection' = selection
       /\ (pc \in ListLoops /\ pc' = "skip") =>
              /\ doc' = doc
              /\ IF ElementsOf(startIndex) = <<>>
                 THEN currentRange' = currentRange
                 ELSE /\ currentRange' = LastEmitted(startIndex).id
                      /\ PosOf(doc, currentRange') = PosOf(doc, currentRange)
                                                       + Len(ElementsOf(startIndex))
      ]_vars

\* a list of an item without content and an item with content has
\* returned: one paragraph, and the cursor on it
C32_Witness ==
    /\ pc = "skip" /\ depth = 1 /\ i = startIndex + 1
    /\ At(tokens, startIndex).type \in {"bullet_list_open", "ordered_list_open"}
    /\ At(tokens, startIndex + 3).type = "inline"
    /\ At(tokens, startIndex + 3).content = ""
    /\ Len(ElementsOf(startIndex)) = 1
    /\ currentRange = ElementsOf(startIndex)[1].id
    /\ Len(doc) = 1

(***************************************************************************)
(* C33. insertBlockquote inserts exactly one quote-styled paragraph for    *)
(* each pair of paragraph-open and inline token between the blockquote-    *)
(* open and its matching close, in source order and all styled alike,      *)
(* the pairs behind the close of a nested blockquote included.             *)
(***************************************************************************)
\* the inline tokens of the paragraph_open + inline pairs between o and last
QuotePairs(o, last) ==
    {x + 1 : x \in {y \in (o + 1)..(last - 1) :
                       /\ At(tokens, y).type = "paragraph_open"
                       /\ IsType(tokens, y + 1, "inline")}}

\* the paragraphs made for the quote at o from the token t
QuoteParagraphs(o, t) == SelectSeq(doc, LAMBDA e : e.blk = o /\ e.tok = t)

IsQuoteParagraph(e, t) ==
    /\ e.kind = "paragraph"
    /\ e.style = "quote"
    /\ e.leftIndent = QuoteIndent
    /\ e.text = At(tokens, t).content

\* the elements of the quote at o stand in the order of their tokens
InSourceOrder(o) ==
    \A m, n \in 1..Len(ElementsOf(o)) :
        m < n => ElementsOf(o)[m].tok < ElementsOf(o)[n].tok

C33_EveryQuotePairIsAParagraph ==
    Rendered =>
        \A o \in DispatchedAt("blockquote_open") :
            HasMatch(o) =>
                /\ \A t \in QuotePairs(o, Match(o)) :
                      /\ Len(QuoteParagraphs(o, t)) = 1
                      /\ IsQuoteParagraph(QuoteParagraphs(o, t)[1], t)
                /\ InSourceOrder(o)

\* what holds: the pairs with content in front of the first blockquote_close
\* behind o give one quote paragraph each, in source order, and nothing else
\* is made for the quote
C33_PairsWithContentUpToFirstClose ==
    Rendered =>
        \A o \in DispatchedAt("blockquote_open") :
            /\ \A t \in QuotePairs(o, FirstClose(o, o + 1)) :
                  IF At(tokens, t).content = ""
                  THEN QuoteParagraphs(o, t) = <<>>
                  ELSE /\ Len(QuoteParagraphs(o, t)) = 1
                       /\ IsQuoteParagraph(QuoteParagraphs(o, t)[1], t)
            /\ \A n \in 1..Len(ElementsOf(o)) :
                  ElementsOf(o)[n].tok \in QuotePairs(o, FirstClose(o, o + 1))
            /\ InSourceOrder(o)

(***************************************************************************)
(* C34. At a code_inline child insertFormattedParagraph first flushes the  *)
(* pending buffer and then emits exactly one run that holds the child's    *)
(* content in the fixed monospace styling, behind all earlier text; the    *)
(* content does not pass through the pending buffer, and the bold, italic  *)
(* and link state is the same behind the child as in front of it.          *)
(***************************************************************************)
\* the loop is about to read a code_inline child
AtCodeInline ==
    /\ pc = "inline"
    /\ ci < Len(children)
    /\ children[ci + 1].type = "code_inline"

IsCodeRun(r, content) ==
    /\ r.text = content
    /\ r.fontName = "Courier New"
    /\ r.color = "#d63384"
    /\ r.highlightColor = "#f8f9fa"
    /\ ~r.bold /\ ~r.italic /\ ~r.underline

\* the run the flush makes of the buffer, none for an empty buffer
FlushedBuffer ==
    IF pendingText = "" THEN <<>>
    ELSE <<Run(pendingText, isBold, isItalic,
               IF linkHref # "" THEN LinkColor ELSE "", linkHref # "", "", "")>>

C34_CodeInlineFlushesThenOneRun ==
    [][AtCodeInline =>
          /\ Len(Runs') = Len(Runs) + Len(FlushedBuffer) + 1
          /\ SubSeq(Runs', 1, Len(Runs') - 1) = Runs \o FlushedBuffer
          /\ IsCodeRun(Runs'[Len(Runs')], children[ci + 1].content)
          /\ pendingText' = ""
          /\ isBold' = isBold /\ isItalic' = isItalic /\ linkHref' = linkHref
      ]_vars

\* a `c` b: the buffered a was flushed as a plain run, the code run stands
\* behind it, and the buffer is empty in front of b
C34_Witness ==
    /\ pc = "inline"
    /\ children = <<Child("text", "a"), Child("code_inline", "c"), Child("text", "b")>>
    /\ ci = 2
    /\ Len(Runs) = 2
    /\ Runs[1].text = "a" /\ Runs[1].fontName = ""
    /\ IsCodeRun(Runs[2], "c")
    /\ pendingText = ""

(***************************************************************************)
(* C35. Every inline token handed to insertFormattedParagraph inserts      *)
(* exactly one paragraph, and the cursor returned is the end of that       *)
(* paragraph: a token with an empty or missing children list gives one     *)
(* empty paragraph with no runs, and a token with children never gives     *)
(* more than one paragraph.                                                *)
(***************************************************************************)
\* the paragraph-opens handled by the dispatcher whose inline token was
\* handed to insertFormattedParagraph
FormattedParagraphOpens ==
    {o \in DispatchedAt("paragraph_open") : IsType(tokens, o + 1, "inline")}

C35_OneParagraphPerInlineToken ==
    \A o \in FormattedParagraphOpens :
        /\ Len(ElementsOf(o)) = 1
        /\ ElementsOf(o)[1].kind = "paragraph"
        /\ ElementsOf(o)[1].tok = o + 1
        /\ At(tokens, o + 1).children = <<>> =>
               ElementsOf(o)[1].runs = <<>> /\ ElementsOf(o)[1].text = ""
        /\ (pc = "dispatch" /\ dispatched[Len(dispatched)] = o) =>
               /\ currentRange = ElementsOf(o)[1].id
               /\ i = o + 2

\* an inline token without children behind a block that moved the cursor:
\* the second element is an empty paragraph without runs, the cursor is on it
C35_Witness ==
    /\ pc = "dispatch"
    /\ Len(dispatched) = 2 /\ dispatched[2] \in FormattedParagraphOpens
    /\ At(tokens, dispatched[2] + 1).children = <<>>
    /\ Len(doc) = 2
    /\ doc[1].text # ""
    /\ doc[2].kind = "paragraph" /\ doc[2].text = "" /\ doc[2].runs = <<>>
    /\ currentRange = doc[2].id

(***************************************************************************)
(* C36. A code_block token with empty content inserts nothing and leaves   *)
(* the cursor where it was; one with content inserts exactly one paragraph *)
(* whose text is the content; an hr token inserts exactly one rule         *)
(* paragraph; and in each case the dispatcher consumes that one token.     *)
(***************************************************************************)
\* the step inserted exactly one paragraph with this text and style directly
\* behind the cursor and moved the cursor to it
OneParagraphInserted(text, style) ==
    /\ Len(doc') = Len(doc) + 1
    /\ doc' = InsertAfter(doc, currentRange, doc'[PosOf(doc', NewId(doc))])
    /\ doc'[PosOf(doc', NewId(doc))].kind = "paragraph"
    /\ doc'[PosOf(doc', NewId(doc))].text = text
    /\ doc'[PosOf(doc', NewId(doc))].style = style
    /\ doc'[PosOf(doc', NewId(doc))].runs = <<>>
    /\ currentRange' = NewId(doc)

C36_CodeBlockAndRuleOneTokenEach ==
    [][/\ AtCase("code_block") =>
              /\ pc' = "dispatch" /\ i' = i + 1
              /\ IF At(tokens, i).content = ""
                 THEN doc' = doc /\ currentRange' = currentRange
                 ELSE OneParagraphInserted(At(tokens, i).content, "code")
       /\ AtCase("hr") =>
              /\ pc' = "dispatch" /\ i' = i + 1
              /\ OneParagraphInserted(HrText, "hr")
      ]_vars

\* a code block, a code block without content and a rule: two elements, the
\* code paragraph and the rule behind it, and the dispatcher behind the rule
C36_Witness ==
    /\ pc = "dispatch"
    /\ tokens = <<Token("code_block", "c"), Token("code_block", ""), Token("hr", "")>>
    /\ i = 3
    /\ Len(doc) = 2
    /\ doc[1].text = "c" /\ doc[1].style = "code"
    /\ doc[2].text = HrText
    /\ currentRange = doc[2].id

(***************************************************************************)
(* C37. pollTaskStatus issues at most 120 status requests for one task and *)
(* always terminates: with the result on status "success" with text, with  *)
(* the authentication error at once on HTTP 401, or with the timeout error *)
(* after the 120th attempt without success; every other response and every *)
(* fetch error consumes exactly one attempt.                               *)
(***************************************************************************)
AuthenticationFailed == "Authentication failed. Please log in again."

QueryTimeout == "Query processing timeout. Please try again."

\* the status requests the call has issued for its task so far
Requests(c) ==
    CASE calls[c].pc = "poll" -> calls[c].attempts + 1
      [] calls[c].pc = "wait" -> calls[c].attempts + 1
      [] OTHER -> 0

\* the ways out of the loop the claim names, and the attempt every other
\* answer costs
PollStep(c) ==
    /\ calls[c].pc = "poll" =>
           calls'[c].pc \in {"poll", "render", "ended", "wait"}
    /\ (calls[c].pc = "poll" /\ calls'[c].pc = "render") =>
           calls'[c].error = ""
    /\ (calls[c].pc = "poll" /\ calls'[c].pc = "wait") =>
           calls'[c].attempts = calls[c].attempts
    /\ (calls[c].pc = "wait" /\ calls'[c].pc = "poll") =>
           /\ calls'[c].attempts = calls[c].attempts + 1
           /\ calls'[c].attempts < maxAttempts
    /\ (calls[c].pc = "wait" /\ calls'[c].pc = "ended") =>
           /\ calls[c].attempts + 1 = maxAttempts
           /\ calls'[c].error = QueryTimeout

C37_PollExit(c) ==
    (calls[c].pc = "poll" /\ calls'[c].pc = "ended") =>
        /\ calls'[c].unauthorized
        /\ calls'[c].error = AuthenticationFailed

C37_PollEndsOn401ResultOrTimeout ==
    [][\A c \in Calls : PollStep(c) /\ C37_PollExit(c)]_allVars

\* what holds: the bound of 120 requests and the attempt per answer, with
\* one more way out of the loop: an answer that is no 401 ends the polling
\* at once when the message made of it holds "401" or "Authentication"
C37_ExitByMessage(c) ==
    (calls[c].pc = "poll" /\ calls'[c].pc = "ended") =>
        Rethrown(calls'[c].error)

C37_PollEndsAlsoOnMessage ==
    [][\A c \in Calls : PollStep(c) /\ C37_ExitByMessage(c)]_allVars

C37_AtMostMaxAttemptsRequests == \A c \in Calls : Requests(c) <= maxAttempts

\* the 120th request of a task is out
C37_LastRequest == \E c \in Calls : Requests(c) = maxAttempts

\* the loop of one task always ends, under PollFairSpec: each timer that
\* fires counts an attempt, and the loop is left at maxAttempts at the latest
C37_PollTerminates == <>(calls[1].pc \notin {"poll", "wait"})

\* a 403 whose error text holds 401 has ended the polling of a task that
\* was never answered 401
C37_EndedWithout401 ==
    \E c \in Calls :
        /\ calls[c].pc = "ended"
        /\ calls[c].error = "Token rejected (401)"
        /\ ~calls[c].unauthorized

(***************************************************************************)
(* C38. Every request to the prompt start and status endpoints carries an  *)
(* auth token that is not null, in every interleaving of user actions: a   *)
(* logout while a generation is polled leads neither to a status request   *)
(* with a null token nor to text inserted into the document after it.      *)
(***************************************************************************)
\* the step issues the fetch of startAsyncQuery for this call
IssuesStart(c) == calls[c].pc = "idle" /\ calls'[c].pc = "start"

\* the step issues a fetch of pollTaskStatus for this call: the first one
\* behind the start response, the later ones behind the timer
IssuesStatus(c) == calls[c].pc \in {"start", "wait"} /\ calls'[c].pc = "poll"

\* the step enters insertTextAtCursor with the text of this call
InsertsText(c) == calls[c].pc = "poll" /\ calls'[c].pc = "render"

\* the token of the Authorization header of a fetch issued in the step:
\* authToken as the handler reads it, which no such step assigns
BearerIsToken == authToken # Null /\ authToken' = authToken

C38_NoRequestNoTextWithoutToken ==
    [][\A c \in Calls :
          /\ (IssuesStart(c) \/ IssuesStatus(c)) => BearerIsToken
          /\ InsertsText(c) => authToken # Null
      ]_allVars

\* what holds: the start request carries the token that generateAndInsertText
\* and callApolloPrompt have tested in the same turn, and a session that has
\* a token stays as it is over every request and every insertion
C38_StartRequestCarriesToken ==
    [][\A c \in Calls :
          /\ IssuesStart(c) => BearerIsToken
          /\ (IssuesStatus(c) \/ InsertsText(c)) => authToken' = authToken
      ]_allVars

\* a task is polled again after the logout: its timer has fired and the
\* request behind it is in flight with no token
C38_PolledWithoutToken ==
    \E c \in Calls :
        /\ calls[c].pc = "poll"
        /\ calls[c].attempts > 0
        /\ authToken = Null
        /\ status = Status("Logged out successfully", "success")

\* the text of a task is being inserted for a session that has logged out
C38_InsertsLoggedOut ==
    \E c \in Calls :
        /\ running = c
        /\ calls[c].pc = "render"
        /\ authToken = Null
        /\ view = "loggedOut"

====
